---- MODULE Spec2Model ----
(***************************************************************************)
(* Model of jira2py's request gateway, src/src/jira2py/jira_base.py:       *)
(* JiraBase._request_jira and the helpers it calls.                         *)
(*                                                                         *)
(* Representation.                                                         *)
(*   - A str is a sequence of tokens (one-character strings, or a whole    *)
(*     word where the code never looks inside it).                         *)
(*   - A dict is a sequence of <<key, value>> pairs with distinct keys     *)
(*     (Python dicts keep insertion order); a value is the token sequence  *)
(*     of its Python literal, <<"None">> being None.                       *)
(*   - Optional[dict] is <<>> for None and <<d>> for the dict d.           *)
(*   - A duration is a whole number of milliseconds; a jitter factor is a  *)
(*     whole number of tenths.                                             *)
(***************************************************************************)
EXTENDS Integers, Sequences, FiniteSets, TLC

\* ---------------------------------------------------------------- constants
HTTP_OK == 200
HTTP_NO_CONTENT == 204
HTTP_TOO_MANY_REQUESTS == 429
API_VERSION == "3"
\* random.uniform(0.7, 1.3), in tenths
DEFAULT_JITTER_MIN == 7
DEFAULT_JITTER_MAX == 13

\* ------------------------------------------------------------------- bounds
\* max_retries is an unconstrained int of the constructor: (-1)..MaxRetries
MaxRetries == 2
\* number of send calls made on the client in one behaviour
MaxCalls == 2
\* number of sessions the client constructs in one behaviour
MaxSessions == 2
\* longest context_path, in tokens, of the calls that vary the path
MaxPathLen == 3
\* largest retry count given to the delay helpers when they are called directly
MaxCount == 3

\* ------------------------------------------------------------ str helpers
None == <<"None">>

RECURSIVE LStrip(_, _)
\* str.lstrip(chars)
LStrip(s, chars) ==
    IF s # <<>> /\ Head(s) \in chars THEN LStrip(Tail(s), chars) ELSE s

RECURSIVE RStrip(_, _)
\* str.rstrip(chars)
RStrip(s, chars) ==
    IF s # <<>> /\ s[Len(s)] \in chars
    THEN RStrip(SubSeq(s, 1, Len(s) - 1), chars)
    ELSE s

\* str.strip(chars)
Strip(s, chars) == RStrip(LStrip(s, chars), chars)

\* the characters str.strip() removes when called without an argument
Whitespace == {" "}

DigitChar == <<"0", "1", "2", "3", "4", "5", "6", "7", "8", "9">>

RECURSIVE IntToStr(_)
\* str(n) of a non-negative int, one token per decimal digit
IntToStr(n) ==
    IF n < 10 THEN <<DigitChar[n + 1]>>
    ELSE IntToStr(n \div 10) \o <<DigitChar[(n % 10) + 1]>>

\* s occurs in t as a contiguous run of tokens
Contains(t, s) ==
    \E i \in 1..(Len(t) - Len(s) + 1) : SubSeq(t, i, i + Len(s) - 1) = s

\* ------------------------------------------------------------ float(str)
Digits == {DigitChar[i] : i \in 1..10}

DigitVal(c) == (CHOOSE i \in 1..10 : DigitChar[i] = c) - 1

RECURSIVE DigitsVal(_)
\* value of a run of decimal digits
DigitsVal(s) ==
    IF s = <<>> THEN 0 ELSE DigitsVal(SubSeq(s, 1, Len(s) - 1)) * 10 + DigitVal(s[Len(s)])

\* the first three decimals of a fraction, as thousandths
FracVal(s) ==
    LET d(i) == IF i <= Len(s) THEN DigitVal(s[i]) ELSE 0
    IN  d(1) * 100 + d(2) * 10 + d(3)

\* float(s) over the alphabet digits, ".", "+", "-", " ", letters:
\* ok is FALSE where float raises ValueError; ms is the value in milliseconds
ParseFloat(s) ==
    LET t    == Strip(s, Whitespace)
        neg  == t # <<>> /\ Head(t) = "-"
        body == IF t # <<>> /\ Head(t) \in {"-", "+"} THEN Tail(t) ELSE t
        dots == {i \in 1..Len(body) : body[i] = "."}
        dot  == IF dots = {} THEN Len(body) + 1 ELSE CHOOSE i \in dots : TRUE
        int  == SubSeq(body, 1, dot - 1)
        frac == SubSeq(body, dot + 1, Len(body))
        ok   == /\ Cardinality(dots) <= 1
                /\ \A i \in 1..Len(body) : body[i] \in Digits \cup {"."}
                /\ Len(int) + Len(frac) > 0
        abs  == DigitsVal(int) * 1000 + FracVal(frac)
    IN  [ok |-> ok, ms |-> IF ok THEN (IF neg THEN 0 - abs ELSE abs) ELSE 0]

\* ------------------------------------------------------------------ JSON
\* json.dumps / json.loads token by token: Python literal <-> JSON text
JsonOfPy(tok) ==
    CASE tok = "None"  -> "null"
      [] tok = "True"  -> "true"
      [] tok = "False" -> "false"
      [] tok = "'"     -> "\""
      [] OTHER         -> tok

PyOfJson(tok) ==
    CASE tok = "null"  -> "None"
      [] tok = "true"  -> "True"
      [] tok = "false" -> "False"
      [] tok = "\""    -> "'"
      [] OTHER         -> tok

\* the Python literal of a dict given as pairs
RECURSIVE ItemsLiteral(_)
ItemsLiteral(d) ==
    IF d = <<>> THEN <<>>
    ELSE <<"'", d[1][1], "'", ":">> \o d[1][2]
         \o (IF Len(d) > 1 THEN <<",">> ELSE <<>>) \o ItemsLiteral(Tail(d))

DictLiteral(d) == <<"{">> \o ItemsLiteral(d) \o <<"}">>

\* json.dumps(d) for a dict d
JsonDumps(d) == [i \in 1..Len(DictLiteral(d)) |-> JsonOfPy(DictLiteral(d)[i])]

JsonFail == [ok |-> FALSE, out |-> <<>>, rest |-> <<>>]

RECURSIVE ParseValue(_)
RECURSIVE ParseElements(_)
RECURSIVE ParseMembers(_)

\* a run of digits at the head of ts
RECURSIVE DigitRun(_)
DigitRun(ts) ==
    IF ts # <<>> /\ Head(ts) \in Digits THEN <<Head(ts)>> \o DigitRun(Tail(ts)) ELSE <<>>

\* a JSON string at the head of ts: the opening quote, the tokens up to the
\* next quote, the closing quote
ParseString(ts) ==
    IF ts = <<>> \/ Head(ts) # "\"" THEN JsonFail
    ELSE LET closing == {i \in 2..Len(ts) : ts[i] = "\""}
         IN  IF closing = {} THEN JsonFail
             ELSE LET j == CHOOSE i \in closing : \A k \in closing : i <= k
                  IN  [ok |-> TRUE,
                       out |-> <<"'">> \o SubSeq(ts, 2, j - 1) \o <<"'">>,
                       rest |-> SubSeq(ts, j + 1, Len(ts))]

\* one JSON value at the head of ts, decoded to a Python literal
ParseValue(ts) ==
    IF ts = <<>> THEN JsonFail
    ELSE CASE Head(ts) \in {"true", "false", "null"} ->
                [ok |-> TRUE, out |-> <<PyOfJson(Head(ts))>>, rest |-> Tail(ts)]
           [] Head(ts) \in Digits ->
                [ok |-> TRUE, out |-> DigitRun(ts),
                 rest |-> SubSeq(ts, Len(DigitRun(ts)) + 1, Len(ts))]
           [] Head(ts) = "\"" -> ParseString(ts)
           [] Head(ts) = "[" ->
                IF Len(ts) >= 2 /\ ts[2] = "]"
                THEN [ok |-> TRUE, out |-> <<"[", "]">>, rest |-> SubSeq(ts, 3, Len(ts))]
                ELSE LET r == ParseElements(Tail(ts))
                     IN  IF r.ok THEN [r EXCEPT !.out = <<"[">> \o r.out] ELSE JsonFail
           [] Head(ts) = "{" ->
                IF Len(ts) >= 2 /\ ts[2] = "}"
                THEN [ok |-> TRUE, out |-> <<"{", "}">>, rest |-> SubSeq(ts, 3, Len(ts))]
                ELSE LET r == ParseMembers(Tail(ts))
                     IN  IF r.ok THEN [r EXCEPT !.out = <<"{">> \o r.out] ELSE JsonFail
           [] OTHER -> JsonFail

\* value ("," value)* "]"
ParseElements(ts) ==
    LET v == ParseValue(ts)
    IN  IF ~v.ok \/ v.rest = <<>> THEN JsonFail
        ELSE IF Head(v.rest) = "]"
             THEN [ok |-> TRUE, out |-> v.out \o <<"]">>, rest |-> Tail(v.rest)]
        ELSE IF Head(v.rest) = ","
             THEN LET r == ParseElements(Tail(v.rest))
                  IN  IF r.ok THEN [r EXCEPT !.out = v.out \o <<",">> \o r.out]
                      ELSE JsonFail
        ELSE JsonFail

\* string ":" value ("," string ":" value)* "}"
ParseMembers(ts) ==
    LET k == ParseString(ts)
    IN  IF ~k.ok \/ k.rest = <<>> \/ Head(k.rest) # ":" THEN JsonFail
        ELSE LET v == ParseValue(Tail(k.rest))
                 kv == k.out \o <<":">> \o v.out
             IN  IF ~v.ok \/ v.rest = <<>> THEN JsonFail
                 ELSE IF Head(v.rest) = "}"
                      THEN [ok |-> TRUE, out |-> kv \o <<"}">>, rest |-> Tail(v.rest)]
                 ELSE IF Head(v.rest) = ","
                      THEN LET r == ParseMembers(Tail(v.rest))
                           IN  IF r.ok THEN [r EXCEPT !.out = kv \o <<",">> \o r.out]
                               ELSE JsonFail
                 ELSE JsonFail

\* response.json(): ok is FALSE where it raises a decoding error; value is
\* the decoded body as a Python literal
JsonLoads(text) ==
    LET r == ParseValue(text)
    IN  IF r.ok /\ r.rest = <<>> THEN [ok |-> TRUE, value |-> r.out]
        ELSE [ok |-> FALSE, value |-> <<>>]

\* ------------------------------------------------------------------ state
VARIABLES
    \* JiraBase attributes (jira_base.py:84-91)
    jira_url, jira_user, jira_api_token, raw_response, max_retries,
    initial_retry_delay, max_retry_delay,
    session,            \* self._session: 0 is None, n > 0 the n-th Session made
    \* every requests.Session constructed so far, in order of construction
    sessions,
    \* the running _request_jira call: its arguments and its local variables
    pc,                 \* "idle", "request", "sleep", "done"
    args,               \* method, context_path, params, data
    sess,               \* local variable session
    url, filtered_params, filtered_data, retry_count, response, delay,
    \* what the caller and the transport observe
    calls,              \* number of _request_jira calls started
    attempts,           \* session.request calls of the running call
    sleeps,             \* completed time.sleep calls of the running call
    received,           \* <<status code, Retry-After header>> of each response
                        \* the running call has received
    sent,               \* keyword arguments of its last session.request call
    result,             \* how the call ended
    \* the with statement around the client (jira_base.py:95-102)
    scope,              \* "out", "in", "unwinding" (an exception is leaving the block)
    scope_exc,          \* the exception that is leaving, or has left, the block
    last_op,            \* the operation the caller ran last, and whether it raised
    \* the last direct call of a helper or of the constructor, or what the
    \* caller noted last: arguments, result
    probe,
    \* a second client of the process: its attributes and where its call is
    other

cfgVars == <<jira_url, jira_user, jira_api_token, raw_response, max_retries,
             initial_retry_delay, max_retry_delay>>
sessVars == <<session, sessions>>
localVars == <<args, sess, url, filtered_params, filtered_data, retry_count,
               response, delay>>
obsVars == <<calls, attempts, sleeps, received, sent, result>>
scopeVars == <<scope, scope_exc, last_op>>
vars == <<cfgVars, sessVars, pc, localVars, obsVars, scopeVars, probe, other>>

\* -------------------------------------------------------- values in flight
\* headers.get(name) of a missing header
Absent == <<"<absent>">>

NoResponse == [status_code |-> 0, retry_after |-> Absent, beta_retry_after |-> Absent,
               text |-> <<>>]

NoException == [type |-> "", msg |-> <<>>, cause |-> ""]

Exc(type, msg) == [type |-> type, msg |-> msg, cause |-> ""]

\* raise JiraRequestError(f"{prefix}: {e}") from e
RequestErrorFrom(prefix, e) ==
    [type |-> "JiraRequestError", msg |-> <<prefix>> \o e.msg, cause |-> e.type]

NoResult == [kind |-> "none", value |-> <<>>, response |-> NoResponse,
             error |-> NoException]

Returned(kind, value, resp) ==
    [kind |-> kind, value |-> value, response |-> resp, error |-> NoException]

Raised(e) == [kind |-> "error", value |-> <<>>, response |-> NoResponse, error |-> e]

NoSent == [method |-> "", url |-> <<>>, params |-> <<>>, data |-> <<>>, session |-> 0]

NoArgs == [method |-> "", context_path |-> <<>>, params |-> <<>>, data |-> <<>>]

NoOp == [name |-> "", raised |-> FALSE, handle |-> 0, made |-> 0, exc |-> NoException]

\* an operation of the caller, with what it found: the handle, the number of
\* sessions made so far and the exception in flight
Op(name, raised) ==
    [name |-> name, raised |-> raised, handle |-> session, made |-> Len(sessions),
     exc |-> scope_exc]

NoProbe == [fn |-> ""]

\* no second client: every field as before its construction
NoClient ==
    [pc |-> "none", session |-> 0, retry_count |-> 0, jira_url |-> <<>>,
     jira_user |-> <<>>, jira_api_token |-> <<>>, raw_response |-> FALSE,
     max_retries |-> 0, initial_retry_delay |-> 0, max_retry_delay |-> 0]

\* exception classes derived from requests.exceptions.RequestException
RequestExceptions == {"ConnectionError", "Timeout"}

\* ------------------------------------------------------- JiraBase helpers
Min(a, b) == IF a <= b THEN a ELSE b

RECURSIVE Pow2(_)
Pow2(n) == IF n <= 0 THEN 1 ELSE 2 * Pow2(n - 1)

\* truth value of an Optional[str]: neither None nor ""
TruthyStr(h) == h # Absent /\ h # <<>>

\* _get_jira_url, for a url given to the constructor
GetJiraUrl(raw_url) == RStrip(raw_url, {"/"})

\* BudgetExhausted that lets only a GET be sent again
BudgetExhausted_GetOnly(count) == args.method # "GET" \/ count >= max_retries

\* BudgetExhausted comparing with > instead of >=
BudgetExhausted_OffByOne(count) == count > max_retries

\* the retry budget is used up (jira_base.py:318)
BudgetExhausted(count) == count >= max_retries

\* CalculateRetryDelay without the exponential term
CalculateRetryDelay_NoExponent(count, retry_after_header, jitter) ==
    IF TruthyStr(retry_after_header) /\ ParseFloat(retry_after_header).ok
    THEN ParseFloat(retry_after_header).ms
    ELSE (Min(initial_retry_delay, max_retry_delay) * jitter) \div 10

\* CalculateRetryDelay without the cap of the backoff by max_retry_delay
CalculateRetryDelay_NoCap(count, retry_after_header, jitter) ==
    IF TruthyStr(retry_after_header) /\ ParseFloat(retry_after_header).ok
    THEN ParseFloat(retry_after_header).ms
    ELSE (initial_retry_delay * Pow2(count) * jitter) \div 10

\* CalculateRetryDelay taking a negative hint for no delay
CalculateRetryDelay_NonNegativeHint(count, retry_after_header, jitter) ==
    IF TruthyStr(retry_after_header) /\ ParseFloat(retry_after_header).ok
    THEN IF ParseFloat(retry_after_header).ms < 0 THEN 0 ELSE ParseFloat(retry_after_header).ms
    ELSE (Min(initial_retry_delay * Pow2(count), max_retry_delay) * jitter) \div 10

\* CalculateRetryDelay capping the server's hint by max_retry_delay
CalculateRetryDelay_CappedHint(count, retry_after_header, jitter) ==
    IF TruthyStr(retry_after_header) /\ ParseFloat(retry_after_header).ok
    THEN Min(ParseFloat(retry_after_header).ms, max_retry_delay)
    ELSE (Min(initial_retry_delay * Pow2(count), max_retry_delay) * jitter) \div 10

\* _calculate_retry_delay; jitter is the value random.uniform returns, in tenths
CalculateRetryDelay(count, retry_after_header, jitter) ==
    IF TruthyStr(retry_after_header) /\ ParseFloat(retry_after_header).ok
    THEN ParseFloat(retry_after_header).ms
    ELSE (Min(initial_retry_delay * Pow2(count), max_retry_delay) * jitter) \div 10

\* _handle_rate_limiting: raises is TRUE where it raises JiraRateLimitError
HandleRateLimiting(resp, count, jitter) ==
    IF count >= max_retries
    THEN [raises |-> TRUE, delay |-> 0]
    ELSE [raises |-> FALSE,
          delay |-> CalculateRetryDelay(
                        count,
                        IF TruthyStr(resp.retry_after) THEN resp.retry_after
                        ELSE resp.beta_retry_after,
                        jitter)]

\* BuildApiUrl joining the path as it was given
BuildApiUrl_Unstripped(context_path) ==
    IF context_path = <<>> \/ Strip(context_path, Whitespace) = <<>>
    THEN [raises |-> TRUE, url |-> <<>>]
    ELSE [raises |-> FALSE,
          url |-> jira_url \o <<"/rest/api/", API_VERSION, "/">> \o context_path]

\* _build_api_url: raises is TRUE where it raises ValueError
BuildApiUrl(context_path) ==
    IF context_path = <<>> \/ Strip(context_path, Whitespace) = <<>>
    THEN [raises |-> TRUE, url |-> <<>>]
    ELSE [raises |-> FALSE,
          url |-> jira_url \o <<"/rest/api/", API_VERSION, "/">>
                  \o Strip(context_path, {"/"})]

\* values Python takes for false
Falsy == {None, <<"False">>, <<"0">>, <<"[", "]">>, <<"'", "'">>}

\* FilterDict dropping also the values that hold a None inside
RECURSIVE FilterDict_Deep(_)
FilterDict_Deep(d) ==
    IF d = <<>> THEN <<>>
    ELSE (IF \A i \in 1..Len(d[1][2]) : d[1][2][i] # "None" THEN <<d[1]>> ELSE <<>>)
             \o FilterDict_Deep(Tail(d))

\* FilterDict testing the truth of a value ("if v") instead of "v is not None"
RECURSIVE FilterDict_Truthy(_)
FilterDict_Truthy(d) ==
    IF d = <<>> THEN <<>>
    ELSE (IF d[1][2] \notin Falsy THEN <<d[1]>> ELSE <<>>) \o FilterDict_Truthy(Tail(d))

\* _filter_none_values
RECURSIVE FilterDict(_)
FilterDict(d) ==
    IF d = <<>> THEN <<>>
    ELSE (IF d[1][2] # None THEN <<d[1]>> ELSE <<>>) \o FilterDict(Tail(d))

FilterNoneValues(data) == IF data = <<>> THEN <<>> ELSE <<FilterDict(data[1])>>

\* json.dumps(filtered_data) if filtered_data else None  (jira_base.py:309)
Payload(fd) == IF fd # <<>> /\ fd[1] # <<>> THEN <<JsonDumps(fd[1])>> ELSE <<>>

\* the message both error branches format from a response
ApiErrorText(resp) ==
    <<"Jira API error: status_code=">> \o IntToStr(resp.status_code)
        \o <<", message=">> \o resp.text

\* ReturnsRaw that hands a 429 to the retry branch
ReturnsRaw_Not429(resp) == raw_response /\ resp.status_code # HTTP_TOO_MANY_REQUESTS

\* ReturnsRaw handing back only the responses with status 200
ReturnsRaw_OnlyOk(resp) == raw_response /\ resp.status_code = HTTP_OK

\* if self._raw_response: return response (jira_base.py:313-314)
ReturnsRaw(resp) == raw_response

\* Caught wrapping the exception in raw-response mode too
Caught_RawWrapped(e) ==
    IF e.type \in RequestExceptions THEN RequestErrorFrom("Request error: ", e)
    ELSE RequestErrorFrom("Unexpected error: ", e)

\* Caught dropping the text of the exception it wraps
Caught_NoMessage(e) ==
    IF raw_response THEN e
    ELSE IF e.type \in RequestExceptions
    THEN [type |-> "JiraRequestError", msg |-> <<"Request error">>, cause |-> e.type]
    ELSE [type |-> "JiraRequestError", msg |-> <<"Unexpected error">>, cause |-> e.type]

\* the except clauses of _request_jira (jira_base.py:333-340) applied to an
\* exception e raised inside the try block
Caught(e) ==
    IF raw_response THEN e
    ELSE IF e.type \in RequestExceptions THEN RequestErrorFrom("Request error: ", e)
    ELSE RequestErrorFrom("Unexpected error: ", e)

\* HandleResponse returning the body text of a 200 without decoding it
HandleResponse_Undecoded(resp, decodeErr) ==
    IF resp.status_code = HTTP_OK
    THEN Returned("json", resp.text, NoResponse)
    ELSE IF resp.status_code = HTTP_NO_CONTENT
    THEN Returned("true", <<"True">>, NoResponse)
    ELSE Raised(Exc("JiraRequestError", ApiErrorText(resp)))

\* HandleResponse taking every status other than 200 for a success
HandleResponse_ElseTrue(resp, decodeErr) ==
    IF resp.status_code = HTTP_OK
    THEN IF JsonLoads(resp.text).ok
         THEN Returned("json", JsonLoads(resp.text).value, NoResponse)
         ELSE Raised(Exc(decodeErr, <<"Expecting value">>))
    ELSE Returned("true", <<"True">>, NoResponse)

\* HandleResponse without the 204 branch
HandleResponse_No204(resp, decodeErr) ==
    IF resp.status_code = HTTP_OK
    THEN IF JsonLoads(resp.text).ok
         THEN Returned("json", JsonLoads(resp.text).value, NoResponse)
         ELSE Raised(Exc(decodeErr, <<"Expecting value">>))
    ELSE Raised(Exc("JiraRequestError", ApiErrorText(resp)))

\* _handle_response; decodeErr is the class response.json() raises on a body
\* that is not JSON (it depends on the installed requests version)
HandleResponse(resp, decodeErr) ==
    IF resp.status_code = HTTP_OK
    THEN IF JsonLoads(resp.text).ok
         THEN Returned("json", JsonLoads(resp.text).value, NoResponse)
         ELSE Raised(Exc(decodeErr, <<"Expecting value">>))
    ELSE IF resp.status_code = HTTP_NO_CONTENT
    THEN Returned("true", <<"True">>, NoResponse)
    ELSE Raised(Exc("JiraRequestError", ApiErrorText(resp)))

\* _ensure_session on the current state: the handle and the sessions after it
NewSession ==
    [closed |-> FALSE,
     auth |-> <<jira_user, jira_api_token>>,
     headers |-> {<<"Accept", "application/json">>, <<"Content-Type", "application/json">>},
     retry_total |-> IF max_retries > 0 THEN max_retries ELSE 0,
     status_forcelist |-> IF max_retries > 0 THEN {429, 500, 502, 503, 504} ELSE {}]

\* CloseRaises without the guard of line 106: None has no close()
CloseRaises_Unguarded == session = 0

\* close (jira_base.py:104-108) on the current state: the guard of line 106
\* keeps it from calling close() on None, so it never raises
CloseRaises == FALSE

\* SessionsAfterClose closing every session of the process
SessionsAfterClose_Everyones ==
    IF session # 0
    THEN [i \in 1..Len(sessions) |-> [sessions[i] EXCEPT !.closed = TRUE]]
    ELSE sessions

\* SessionsAfterClose dropping the session without closing it
SessionsAfterClose_Leaked == sessions

\* self._session.close() (line 107)
SessionsAfterClose ==
    IF session # 0 /\ ~CloseRaises
    THEN [sessions EXCEPT ![session].closed = TRUE]
    ELSE sessions

\* HandleAfterClose keeping the handle on the closed session
HandleAfterClose_Kept == session

\* self._session = None (line 108)
HandleAfterClose == IF CloseRaises THEN session ELSE 0

\* ExitHandle closing the session only when the block ends without an exception
ExitHandle_OnlyOnNormalExit == IF scope = "unwinding" THEN session ELSE HandleAfterClose

\* __exit__ (jira_base.py:100-102) calls close() whatever exc_type is
ExitHandle == HandleAfterClose

ExitSessions == IF ExitHandle = session THEN sessions ELSE SessionsAfterClose

\* __exit__ returns None: the exception that is leaving the block goes on
ExitSuppresses == FALSE

\* the credential check inside _ensure_session (jira_base.py:117-124)
EnsureRaises == session = 0 /\ (jira_user = Absent \/ jira_api_token = Absent)

EnsuredSession == IF session = 0 THEN Len(sessions) + 1 ELSE session

\* the Session of line 113 when the credential check raises: nothing is set on it
BareSession ==
    [closed |-> FALSE, auth |-> <<>>, headers |-> {}, retry_total |-> 0,
     status_forcelist |-> {}]

EnsuredSessions ==
    IF session = 0
    THEN Append(sessions, IF EnsureRaises THEN BareSession ELSE NewSession)
    ELSE sessions

AuthenticationError ==
    Exc("JiraAuthenticationError", <<"JIRA user and API token must be provided for authentication">>)

\* TokenAfterClose forgetting the token when the session is closed
TokenAfterClose_Cleared == Absent

\* close assigns self._session only (jira_base.py:106-108)
TokenAfterClose == jira_api_token

\* ----------------------------------------------------------------- inputs
Methods == {"GET", "POST", "PUT"}

\* constructor arguments: max_retries, raw_response, the two delays in ms
RetryChoices == (0 - 1)..MaxRetries

DelayChoices == {<<10, 20>>}

UrlChoices == {<<"https://x.test">>, <<"https://x.test", "/">>}

\* values random.uniform(DEFAULT_JITTER_MIN, DEFAULT_JITTER_MAX) can return
JitterDraws == {DEFAULT_JITTER_MIN, 10, DEFAULT_JITTER_MAX}

\* response bodies: two JSON documents and a text that is not JSON
BodyA == <<"{", "\"", "a", "\"", ":", "1", "}">>
BodyOk == <<"{", "\"", "ok", "\"", ":", "true", "}">>
BodyText == <<"not found">>
Bodies == {BodyA, BodyOk, BodyText}

Statuses == {HTTP_OK, HTTP_NO_CONTENT, HTTP_TOO_MANY_REQUESTS, 404, 500}

\* a value of the Beta-Retry-After header: 3 seconds
BetaHint == <<"3">>

RetryAfterValues == {Absent, <<"2">>, <<"5", ".", "0">>, <<"x">>, <<"-", "1">>}

Responses ==
    [status_code : Statuses \ {HTTP_TOO_MANY_REQUESTS}, retry_after : {Absent},
     beta_retry_after : {Absent}, text : Bodies]
    \cup
    [status_code : {HTTP_TOO_MANY_REQUESTS}, retry_after : RetryAfterValues,
     beta_retry_after : {Absent}, text : {BodyOk, BodyText}]
    \cup
    [status_code : {HTTP_TOO_MANY_REQUESTS}, retry_after : {Absent},
     beta_retry_after : {BetaHint}, text : {BodyText}]

\* exceptions session.request raises: two RequestExceptions and one that is not
TransportErrors ==
    {Exc("ConnectionError", <<"connection refused">>),
     Exc("Timeout", <<"read timed out">>),
     Exc("UnicodeError", <<"label too long">>)}

\* the class response.json() raises on a body that is not JSON:
\* requests.exceptions.JSONDecodeError (requests >= 2.27) or ValueError
DecodeErrors == {"Timeout", "ValueError"}

\* dicts and paths of the calls made on the client
DictA == <<<<"a", None>>, <<"b", <<"False">>>>>>
DictB == <<<<"a", <<"0">>>>, <<"b", None>>>>
EmptyDict == <<>>

PathField == <<"field">>

CallInputs ==
    [method : Methods, context_path : {PathField}, params : {<<>>}, data : {<<>>}]
    \cup
    [method : {"GET"}, context_path : {<<"/", "field", "/">>, <<>>, <<"/">>},
     params : {<<>>}, data : {<<>>}]
    \cup
    [method : {"POST"}, context_path : {PathField},
     params : {<<EmptyDict>>, <<DictA>>}, data : {<<EmptyDict>>, <<DictB>>}]

\* ------------------------------------------------------------------- Init
\* everything of the client but the attributes __init__ takes from its
\* arguments
InitSelf ==
    /\ session = 0
    /\ sessions = <<>>
    /\ pc = "idle"
    /\ args = NoArgs
    /\ sess = 0
    /\ url = <<>>
    /\ filtered_params = <<>>
    /\ filtered_data = <<>>
    /\ retry_count = 0
    /\ response = NoResponse
    /\ delay = 0
    /\ calls = 0
    /\ attempts = 0
    /\ sleeps = 0
    /\ received = <<>>
    /\ sent = NoSent
    /\ result = NoResult
    /\ scope = "out"
    /\ scope_exc = NoException
    /\ last_op = NoOp
    /\ probe = NoProbe

\* one client in the process
InitRest == InitSelf /\ other = NoClient

\* the attributes __init__ takes from its arguments
InitConfig ==
    /\ \E u \in UrlChoices : jira_url = GetJiraUrl(u)
    /\ jira_user = <<"user@example.com">>
    /\ jira_api_token = <<"token">>
    /\ raw_response \in BOOLEAN
    /\ max_retries \in RetryChoices
    /\ \E d \in DelayChoices : initial_retry_delay = d[1] /\ max_retry_delay = d[2]

Init == InitConfig /\ InitRest

\* ---------------------------------------------------------------- actions
\* the caller is between two operations
Between == pc = "idle" /\ scope # "unwinding"

\* _ensure_session called by the user (jira_base.py:110-145)
Acquire ==
    /\ Between
    /\ session # 0 \/ Len(sessions) < MaxSessions
    /\ session' = EnsuredSession
    /\ sessions' = EnsuredSessions
    /\ last_op' = Op("acquire", EnsureRaises)
    /\ UNCHANGED <<other, cfgVars, pc, localVars, obsVars, scope, scope_exc, probe>>

\* close (jira_base.py:104-108)
Close ==
    /\ Between
    /\ session' = HandleAfterClose
    /\ sessions' = SessionsAfterClose
    /\ jira_api_token' = TokenAfterClose
    /\ last_op' = Op("close", CloseRaises)
    /\ UNCHANGED <<other, jira_url, jira_user, raw_response, max_retries, initial_retry_delay,
                   max_retry_delay, pc, localVars, obsVars, scope, scope_exc, probe>>

\* InitialRetryCount taking up the count the last call ended with
InitialRetryCount_Carried == IF probe.fn = "call" THEN probe.retries ELSE 0

\* retry_count = 0 (jira_base.py:302)
InitialRetryCount == 0

\* _request_jira up to the loop (jira_base.py:292-302), called by a caller
\* who notes p
SendBy(a, p) ==
    /\ Between
    /\ calls < MaxCalls
    /\ session # 0 \/ Len(sessions) < MaxSessions
    /\ calls' = calls + 1
    /\ args' = a
    /\ session' = EnsuredSession
    /\ sessions' = EnsuredSessions
    /\ retry_count' = InitialRetryCount
    /\ last_op' = Op("send", FALSE)
    /\ probe' = p
    /\ UNCHANGED <<other, response, delay, attempts, sleeps, received, sent, scope,
                   scope_exc>>
    /\ IF EnsureRaises
       THEN /\ result' = Raised(AuthenticationError)
            /\ pc' = "done"
            /\ sess' = 0
            /\ url' = <<>>
            /\ filtered_params' = <<>>
            /\ filtered_data' = <<>>
       ELSE IF BuildApiUrl(a.context_path).raises
       THEN /\ result' = Raised(Exc("ValueError", <<"context_path cannot be empty">>))
            /\ pc' = "done"
            /\ sess' = EnsuredSession
            /\ url' = <<>>
            /\ filtered_params' = <<>>
            /\ filtered_data' = <<>>
       ELSE /\ result' = NoResult
            /\ pc' = "request"
            /\ sess' = EnsuredSession
            /\ url' = BuildApiUrl(a.context_path).url
            /\ filtered_params' = FilterNoneValues(a.params)
            /\ filtered_data' = FilterNoneValues(a.data)
    /\ UNCHANGED cfgVars

SendCall(a) == SendBy(a, probe)

Send == \E a \in CallInputs : SendCall(a)

\* RetryAfterOf that reads no header
RetryAfterOf_Ignored(resp) == Absent

\* response.headers.get("Retry-After") (jira_base.py:324)
RetryAfterOf(resp) == resp.retry_after

\* RequestKwargs that sends the body with the first attempt only
RequestKwargs_BodyOnce ==
    [method |-> args.method, url |-> url, params |-> filtered_params,
     data |-> IF attempts = 0 THEN Payload(filtered_data) ELSE <<>>, session |-> sess]

\* the keyword arguments of session.request (jira_base.py:305-310)
RequestKwargs ==
    [method |-> args.method, url |-> url, params |-> filtered_params,
     data |-> Payload(filtered_data), session |-> sess]

\* one pass of the loop in which session.request raises e (jira_base.py:305, 333-340)
RequestRaises(e) ==
    /\ pc = "request"
    /\ attempts' = attempts + 1
    /\ sent' = RequestKwargs
    /\ result' = Raised(Caught(e))
    /\ pc' = "done"
    /\ UNCHANGED <<other, cfgVars, sessVars, localVars, calls, sleeps, received,
                   scopeVars, probe>>

\* one pass of the loop in which session.request returns resp, up to the
\* return, the raise or the call of time.sleep (jira_base.py:305-331)
RequestReturns(resp, jitter, decodeErr) ==
    /\ pc = "request"
    /\ attempts' = attempts + 1
    /\ sent' = RequestKwargs
    /\ response' = resp
    /\ received' = Append(received, <<resp.status_code, resp.retry_after>>)
    /\ IF ReturnsRaw(resp)
       THEN /\ result' = Returned("response", <<>>, resp)
            /\ pc' = "done"
            /\ delay' = delay
       ELSE IF resp.status_code = HTTP_TOO_MANY_REQUESTS
       THEN IF BudgetExhausted(retry_count)
            THEN /\ result' = Raised(Caught(Exc("JiraRateLimitError",
                                  <<"Max retries exceeded for rate-limited request. ">>
                                      \o ApiErrorText(resp))))
                 /\ pc' = "done"
                 /\ delay' = delay
            ELSE /\ delay' = CalculateRetryDelay(retry_count, RetryAfterOf(resp), jitter)
                 /\ pc' = "sleep"
                 /\ result' = result
       ELSE /\ result' = LET r == HandleResponse(resp, decodeErr)
                         IN  IF r.kind = "error" THEN Raised(Caught(r.error)) ELSE r
            /\ pc' = "done"
            /\ delay' = delay
    /\ UNCHANGED <<other, cfgVars, sessVars, args, sess, url, filtered_params,
                   filtered_data, retry_count, calls, sleeps, scopeVars, probe>>

\* the pass draws a jitter factor only where _calculate_retry_delay reaches
\* random.uniform, and decodes the body only where _handle_response calls json()
NoDraw == 0

DrawsJitter(resp) ==
    /\ ~ReturnsRaw(resp)
    /\ resp.status_code = HTTP_TOO_MANY_REQUESTS
    /\ ~BudgetExhausted(retry_count)
    /\ ~(TruthyStr(resp.retry_after) /\ ParseFloat(resp.retry_after).ok)

Decodes(resp) ==
    ~ReturnsRaw(resp) /\ resp.status_code = HTTP_OK /\ ~JsonLoads(resp.text).ok

RequestOver(responses, errors) ==
    \/ \E e \in errors : RequestRaises(e)
    \/ \E resp \in responses :
         \E jitter \in IF DrawsJitter(resp) THEN JitterDraws ELSE {NoDraw},
            decodeErr \in IF Decodes(resp) THEN DecodeErrors ELSE {""} :
              RequestReturns(resp, jitter, decodeErr)

Request == RequestOver(Responses, TransportErrors)

\* time.sleep(delay); retry_count += 1; continue (jira_base.py:326-328);
\* time.sleep raises ValueError on a negative delay
Sleep ==
    /\ pc = "sleep"
    /\ IF delay < 0
       THEN /\ result' = Raised(Caught(Exc("ValueError", <<"sleep length must be non-negative">>)))
            /\ pc' = "done"
            /\ UNCHANGED <<retry_count, sleeps>>
       ELSE /\ sleeps' = sleeps + 1
            /\ retry_count' = retry_count + 1
            /\ pc' = "request"
            /\ result' = result
    /\ UNCHANGED <<other, cfgVars, sessVars, args, sess, url, filtered_params,
                   filtered_data, response, delay, calls, attempts, received, sent,
                   scopeVars, probe>>

\* HandleAfter giving up the session of a call that ends with an error
HandleAfter_DroppedOnError(r) == IF r.kind = "error" THEN 0 ELSE session

\* self._session after a _request_jira call that ends with r: the call
\* assigns it nowhere past line 292 (jira_base.py:294-340)
HandleAfter(r) == session

\* the call hands result to its caller, who notes p: the locals of
\* _request_jira and the record of the finished call are dropped
Finish(p) ==
    /\ pc = "done"
    /\ pc' = "idle"
    /\ args' = NoArgs
    /\ sess' = 0
    /\ url' = <<>>
    /\ filtered_params' = <<>>
    /\ filtered_data' = <<>>
    /\ retry_count' = 0
    /\ response' = NoResponse
    /\ delay' = 0
    /\ attempts' = 0
    /\ sleeps' = 0
    /\ received' = <<>>
    /\ sent' = NoSent
    /\ result' = NoResult
    /\ probe' = p
    /\ session' = HandleAfter(result)
    /\ UNCHANGED <<other, cfgVars, sessions, calls, scopeVars>>

Return == Finish(probe)

Next == Acquire \/ Close \/ Send \/ Request \/ Sleep \/ Return

Spec == Init /\ [][Next]_vars

\* ------------------------------------------- the same client, other inputs
\* SpecReq runs the same operations with many request descriptors and few
\* responses, where Spec runs few request descriptors with many responses.
PathChars == {"/", " ", "field"}

RichPaths == UNION {[1..n -> PathChars] : n \in 0..MaxPathLen}

Keys == <<"a", "b">>

Values == {None, <<"False">>, <<"0">>, <<"[", "]">>, <<"'", "'">>, <<"'", "v", "'">>,
           <<"[", "None", "]">>}

\* the dicts over Keys, and Optional[dict]
Dicts ==
    {<<>>} \cup {<<<<Keys[i], v>>>> : i \in 1..2, v \in Values}
           \cup {<<<<Keys[1], v>>, <<Keys[2], w>>>> : v \in Values, w \in Values}

OptDicts == {<<>>} \cup {<<d>> : d \in Dicts}

RichInputs ==
    [method : {"GET"}, context_path : RichPaths, params : {<<>>}, data : {<<>>}]
    \cup
    [method : {"POST"}, context_path : {PathField}, params : OptDicts, data : {<<>>}]
    \cup
    [method : {"PUT"}, context_path : {PathField}, params : {<<>>}, data : OptDicts]
    \cup
    [method : {"POST"}, context_path : {PathField},
     params : {<<EmptyDict>>, <<DictA>>}, data : {<<EmptyDict>>, <<DictB>>}]

FewResponses ==
    {[status_code |-> HTTP_OK, retry_after |-> Absent, beta_retry_after |-> Absent,
      text |-> BodyOk],
     [status_code |-> HTTP_TOO_MANY_REQUESTS, retry_after |-> Absent,
      beta_retry_after |-> Absent, text |-> BodyText],
     [status_code |-> 404, retry_after |-> Absent, beta_retry_after |-> Absent,
      text |-> BodyText]}

FewErrors == {Exc("ConnectionError", <<"connection refused">>)}

SendRich == \E a \in RichInputs : SendCall(a)

RequestFew == RequestOver(FewResponses, FewErrors)

NextReq == Acquire \/ Close \/ SendRich \/ RequestFew \/ Sleep \/ Return

SpecReq == Init /\ [][NextReq]_vars

\* --------------------------------------------- the client in a with block
\* SpecScope runs the client inside and outside of with blocks, with few
\* request descriptors and few responses.
FewInputs ==
    [method : {"GET"}, context_path : {PathField, <<>>}, params : {<<>>}, data : {<<>>}]

BodyErrors == {Exc("KeyError", <<"'id'">>)}

\* with client: (jira_base.py:95-98)
EnterScope ==
    /\ pc = "idle"
    /\ scope = "out"
    /\ session # 0 \/ Len(sessions) < MaxSessions
    /\ session' = EnsuredSession
    /\ sessions' = EnsuredSessions
    /\ scope' = IF EnsureRaises THEN "out" ELSE "in"
    /\ scope_exc' = IF EnsureRaises THEN AuthenticationError ELSE NoException
    /\ last_op' = Op("enter", EnsureRaises)
    /\ UNCHANGED <<other, cfgVars, pc, localVars, obsVars, probe>>

\* a statement of the block that is not a call of the client raises e
BodyRaises(e) ==
    /\ pc = "idle"
    /\ scope = "in"
    /\ scope' = "unwinding"
    /\ scope_exc' = e
    /\ UNCHANGED <<other, cfgVars, sessVars, pc, localVars, obsVars, last_op, probe>>

BodyFails == \E e \in BodyErrors : BodyRaises(e)

\* the block does not catch the exception a _request_jira call raised
Propagate ==
    /\ pc = "done"
    /\ scope = "in"
    /\ result.kind = "error"
    /\ scope' = "unwinding"
    /\ scope_exc' = result.error
    /\ pc' = "idle"
    /\ args' = NoArgs
    /\ sess' = 0
    /\ url' = <<>>
    /\ filtered_params' = <<>>
    /\ filtered_data' = <<>>
    /\ retry_count' = 0
    /\ response' = NoResponse
    /\ delay' = 0
    /\ attempts' = 0
    /\ sleeps' = 0
    /\ received' = <<>>
    /\ sent' = NoSent
    /\ result' = NoResult
    /\ UNCHANGED <<other, cfgVars, sessVars, calls, last_op, probe>>

\* the end of the block, reached normally or by an exception: __exit__
\* (jira_base.py:100-102)
ExitScope ==
    /\ pc = "idle"
    /\ scope \in {"in", "unwinding"}
    /\ session' = ExitHandle
    /\ sessions' = ExitSessions
    /\ jira_api_token' = TokenAfterClose
    /\ scope' = "out"
    /\ scope_exc' = IF ExitSuppresses THEN NoException ELSE scope_exc
    /\ last_op' = Op("exit", CloseRaises)
    /\ UNCHANGED <<other, jira_url, jira_user, raw_response, max_retries, initial_retry_delay,
                   max_retry_delay, pc, localVars, obsVars, probe>>

SendFew == \E a \in FewInputs : SendCall(a)

NextScope ==
    \/ Acquire \/ Close \/ EnterScope \/ BodyFails \/ Propagate \/ ExitScope
    \/ SendFew \/ RequestFew \/ Sleep \/ Return

SpecScope == Init /\ [][NextScope]_vars

\* ------------------------------------- the delay helpers, called directly
\* SpecDelay calls _calculate_retry_delay and _handle_rate_limiting the way
\* the unit tests do, on clients with other delays than Spec's.
InitialDelays == {0, 10, 1000}

MaxDelays == {0 - 10, 0, 20, 60000}

ProbeHeaders == {Absent, <<>>, <<"x">>, <<"2">>, <<"0">>, <<"-", "1">>}

InitDelay ==
    /\ jira_url = <<"https://x.test">>
    /\ jira_user = <<"user@example.com">>
    /\ jira_api_token = <<"token">>
    /\ raw_response = FALSE
    /\ max_retries = MaxRetries
    /\ initial_retry_delay \in InitialDelays
    /\ max_retry_delay \in MaxDelays
    /\ InitRest

\* the header makes _calculate_retry_delay return before the backoff
HintUsed(h) == TruthyStr(h) /\ ParseFloat(h).ok

NoPrev == [count |-> 0 - 1, header |-> Absent, jitter |-> NoDraw, delay |-> 0]

\* the _calculate_retry_delay call before the one probe records
PrevProbe ==
    IF probe.fn = "delay"
    THEN [count |-> probe.count, header |-> probe.header, jitter |-> probe.jitter,
          delay |-> probe.delay]
    ELSE NoPrev

\* a behaviour makes at most two direct calls, the second after a call of
\* _calculate_retry_delay
ProbesLeft == probe.fn = "" \/ (probe.fn = "delay" /\ probe.prev = NoPrev)

\* delay = self._calculate_retry_delay(count, header)
CalcDelay(count, header, jitter) ==
    /\ Between
    /\ ProbesLeft
    /\ probe' = [fn |-> "delay", count |-> count, header |-> header,
                 beta |-> Absent, jitter |-> jitter, raises |-> FALSE,
                 delay |-> CalculateRetryDelay(count, header, jitter),
                 prev |-> PrevProbe]
    /\ UNCHANGED <<other, cfgVars, sessVars, pc, localVars, obsVars, scopeVars>>

ProbeDelay ==
    \E count \in 0..MaxCount, header \in ProbeHeaders :
        \E jitter \in IF HintUsed(header) THEN {NoDraw} ELSE JitterDraws :
            CalcDelay(count, header, jitter)

\* delay = self._handle_rate_limiting(response, count)
CalcRateLimiting(resp, count, jitter) ==
    /\ Between
    /\ ProbesLeft
    /\ probe' = [fn |-> "rate", count |-> count, header |-> resp.retry_after,
                 beta |-> resp.beta_retry_after, jitter |-> jitter,
                 raises |-> HandleRateLimiting(resp, count, jitter).raises,
                 delay |-> HandleRateLimiting(resp, count, jitter).delay,
                 prev |-> NoPrev]
    /\ UNCHANGED <<other, cfgVars, sessVars, pc, localVars, obsVars, scopeVars>>

ProbeRateLimiting ==
    \E resp \in {r \in Responses : r.status_code = HTTP_TOO_MANY_REQUESTS /\ r.text = BodyText},
       count \in 0..MaxCount :
        \E jitter \in IF count >= max_retries \/ HintUsed(resp.retry_after)
                           \/ (~TruthyStr(resp.retry_after) /\ HintUsed(resp.beta_retry_after))
                       THEN {NoDraw} ELSE JitterDraws :
            CalcRateLimiting(resp, count, jitter)

NextDelay == ProbeDelay \/ ProbeRateLimiting

SpecDelay == InitDelay /\ [][NextDelay]_vars

\* ================================================================ claims
Max(a, b) == IF a >= b THEN a ELSE b

\* a call is under way or has just ended, in classified mode
Classified == ~raw_response /\ pc # "idle"

\* every session.request of the running call returned a response
AllReturned == attempts >= 1 /\ Len(received) = attempts

LastStatus == received[Len(received)][1]

\* every response so far had status 429 and no Retry-After header
AllRateLimitedNoHint ==
    /\ AllReturned
    /\ \A i \in 1..Len(received) : received[i] = <<HTTP_TOO_MANY_REQUESTS, Absent>>

\* the call ended with an error of the given class
RaisedType(t) == result.kind = "error" /\ result.error.type = t

\* the error message holds the status code and the body text of resp
CarriesStatusAndText(e, resp) ==
    Contains(e.msg, IntToStr(resp.status_code) \o <<", message=">> \o resp.text)

C2_RateLimitErrorKind ==
    (Classified /\ pc = "done" /\ AllReturned
        /\ LastStatus = HTTP_TOO_MANY_REQUESTS /\ retry_count >= max_retries)
        => /\ RaisedType("JiraRateLimitError")
           /\ CarriesStatusAndText(result.error, response)

\* ---- C3
\* the first n responses were 429s without Retry-After header
RateLimitedTimes(n) ==
    /\ Len(received) >= n
    /\ \A i \in 1..n : received[i] = <<HTTP_TOO_MANY_REQUESTS, Absent>>

Scenario ==
    /\ Classified /\ max_retries = 2
    /\ args.method = "GET" /\ args.context_path = PathField

OkTrue == <<"{", "'", "ok", "'", ":", "True", "}">>

\* C3 as stated: with max_retries = 2, after three consecutive 429s the call
\* is still going (a third delayed retry follows), and the 200 with body
\* {"ok": true} that comes fourth ends it with three sleeps and that value.
C3_Original ==
    Scenario =>
        /\ (AllReturned /\ Len(received) = 3 /\ RateLimitedTimes(3)) => pc # "done"
        /\ (pc = "done" /\ AllReturned /\ Len(received) = 4 /\ RateLimitedTimes(3)
                /\ LastStatus = HTTP_OK /\ response.text = BodyOk)
              => (sleeps = 3 /\ result.kind = "json" /\ result.value = OkTrue)

\* C3 amended: with max_retries = 2, two consecutive 429s and then a 200 with
\* body {"ok": true} make send("GET", "field") perform two delayed retries and
\* return {"ok": true}; a third consecutive 429 ends the call with an error
\* after three attempts and two delayed retries.
C3_Scenario ==
    Scenario =>
        /\ (AllReturned /\ Len(received) = 3 /\ RateLimitedTimes(2)
                /\ LastStatus = HTTP_OK /\ response.text = BodyOk)
              => (pc = "done" /\ sleeps = 2 /\ result.kind = "json"
                  /\ result.value = OkTrue)
        /\ (AllReturned /\ Len(received) = 3 /\ RateLimitedTimes(3))
              => (pc = "done" /\ attempts = 3 /\ sleeps = 2 /\ result.kind = "error")

C3_Witness ==
    /\ Scenario /\ pc = "done" /\ AllReturned /\ Len(received) = 3
    /\ RateLimitedTimes(2) /\ LastStatus = HTTP_OK /\ response.text = BodyOk
    /\ sleeps = 2 /\ result.value = OkTrue

\* ---- C4
OtherStatus(st) == st \notin {HTTP_OK, HTTP_NO_CONTENT, HTTP_TOO_MANY_REQUESTS}

\* C4: in classified mode a response with a status other than 200, 204 and
\* 429 ends the call at once with a JiraRequestError that carries the status
\* and the body text: the attempt that received it is the last, and no sleep
\* follows it (the sleeps are those of the 429s before it).
C4_OtherStatusFails ==
    (Classified /\ received # <<>> /\ Len(received) = attempts /\ OtherStatus(LastStatus))
        => /\ pc = "done"
           /\ RaisedType("JiraRequestError")
           /\ CarriesStatusAndText(result.error, response)
           /\ sleeps = attempts - 1
           /\ \A i \in 1..(Len(received) - 1) : received[i][1] = HTTP_TOO_MANY_REQUESTS

C4_Witness ==
    /\ Classified /\ pc = "done" /\ attempts = 1 /\ sleeps = 0
    /\ received = <<<<404, Absent>>>> /\ response.text = BodyText
    /\ RaisedType("JiraRequestError")

\* ---- C5
ALiteral == <<"{", "'", "a", "'", ":", "1", "}">>

\* C5: in classified mode a 200 whose body is JSON makes send return the
\* decoded body ({"a": 1} for the body {"a":1}), and a 204 makes it return
\* True; neither raises.
C5_SuccessValues ==
    (Classified /\ pc = "done" /\ AllReturned)
        => /\ (LastStatus = HTTP_OK /\ JsonLoads(response.text).ok)
                => (result.kind = "json" /\ result.value = JsonLoads(response.text).value)
           /\ (LastStatus = HTTP_OK /\ response.text = BodyA)
                => (result.kind = "json" /\ result.value = ALiteral)
           /\ LastStatus = HTTP_NO_CONTENT
                => (result.kind = "true" /\ result.value = <<"True">>)

C5_Witness ==
    /\ Classified /\ pc = "done" /\ AllReturned /\ LastStatus = HTTP_OK
    /\ response.text = BodyA /\ result.kind = "json" /\ result.value = ALiteral

\* ---- C6
\* the last attempt of the call got a response the code turns into a value
LastAttemptSucceeded ==
    /\ AllReturned
    /\ \/ LastStatus = HTTP_NO_CONTENT
       \/ LastStatus = HTTP_OK /\ JsonLoads(response.text).ok

\* C6: in classified mode a finished send has returned a value only if its
\* last attempt received a 200 or a 204; every other finished call (invalid
\* path, other status, exhausted 429 budget, transport failure, body that
\* does not decode, failed sleep) has raised an error.
C6_NoSilentSuppression ==
    (Classified /\ pc = "done")
        => /\ result.kind \in {"json", "true", "error"}
           /\ result.kind \in {"json", "true"}
                => (AllReturned /\ LastStatus \in {HTTP_OK, HTTP_NO_CONTENT})
           /\ ~LastAttemptSucceeded => result.kind = "error"

C6_Witness ==
    /\ Classified /\ pc = "done" /\ AllReturned /\ attempts = 2
    /\ LastStatus = HTTP_OK /\ response.text = BodyText /\ result.kind = "error"

\* ---- C7
\* the path is empty or made of separators only
OnlySeparators(path) == \A i \in 1..Len(path) : path[i] = "/"

\* C7: a send whose path is empty or made of "/" only raises the invalid
\* request error (ValueError in the source) and makes no HTTP call.
C7_EmptyPathRejected ==
    (pc # "idle" /\ OnlySeparators(args.context_path))
        => (pc = "done" /\ RaisedType("ValueError") /\ attempts = 0)

\* ---- C8
\* f holds exactly the entries of d whose value is not None, in d's order
RECURSIVE IsFilterOf(_, _)
IsFilterOf(f, d) ==
    IF d = <<>> THEN f = <<>>
    ELSE IF d[1][2] = None THEN IsFilterOf(f, Tail(d))
    ELSE f # <<>> /\ f[1] = d[1] /\ IsFilterOf(Tail(f), Tail(d))

\* g is the Optional[dict] that filtering the Optional[dict] o must give
IsOptFilterOf(g, o) ==
    IF o = <<>> THEN g = <<>>
    ELSE Len(g) = 1 /\ IsFilterOf(g[1], o[1])

\* the call got past the construction of the url
Prepared == pc # "idle" /\ ~(pc = "done" /\ attempts = 0)

\* C8: the mappings send hands to the transport hold exactly the entries of
\* query and body whose value is not None, each with its value (False, 0, [],
\* "" are kept), and a None mapping stays None: params is the filtered query,
\* and a transmitted body decodes to the filtered body.
C8_AbsentMarkerFiltering ==
    Prepared =>
        /\ IsOptFilterOf(filtered_params, args.params)
        /\ IsOptFilterOf(filtered_data, args.data)
        /\ attempts >= 1 =>
              /\ sent.params = filtered_params
              /\ IF sent.data = <<>>
                 THEN filtered_data = <<>> \/ filtered_data = <<EmptyDict>>
                 ELSE /\ filtered_data # <<>>
                      /\ JsonLoads(sent.data[1]).ok
                      /\ JsonLoads(sent.data[1]).value = DictLiteral(filtered_data[1])

C8_Witness ==
    /\ attempts >= 1
    /\ args.data = << << <<"a", None>>, <<"b", <<"False">>>> >> >>
    /\ sent.data = << <<"{", "\"", "b", "\"", ":", "false", "}">> >>

\* ---- C9
\* C9: an empty mapping is transmitted as it is: body = {} is sent as the
\* JSON text of the empty mapping, not as no payload, and query = {} reaches
\* the transport as the empty mapping.
C9_EmptyMappingSent ==
    attempts >= 1 =>
        /\ args.data = <<EmptyDict>> => sent.data = << <<"{", "}">> >>
        /\ args.params = <<EmptyDict>> => sent.params = <<EmptyDict>>

\* ---- C10
\* C10: when a 429 within the budget carries a Retry-After header that parses
\* as the number v, the delay computed for the retry is v, at every retry
\* count ("2" gives 2.0 s, "5.0" gives 5.0 s): no jitter, no exponential term.
C10_RetryAfterHonored ==
    (pc = "sleep" /\ TruthyStr(response.retry_after) /\ ParseFloat(response.retry_after).ok)
        => /\ delay = ParseFloat(response.retry_after).ms
           /\ response.retry_after = <<"2">> => delay = 2000
           /\ response.retry_after = <<"5", ".", "0">> => delay = 5000
           /\ response.retry_after = <<"-", "1">> => delay = 0 - 1000

C10_Witness ==
    /\ pc = "sleep" /\ retry_count = 1 /\ response.retry_after = <<"2">>
    /\ delay = 2000 /\ max_retry_delay < delay

\* ---- C11
\* C11: when a 429 handled by send carries no Retry-After header but a
\* Beta-Retry-After header that parses as the number v, the delay slept
\* before the next attempt is v.
C11_SecondaryHint ==
    (pc = "sleep" /\ ~TruthyStr(response.retry_after)
        /\ TruthyStr(response.beta_retry_after)
        /\ ParseFloat(response.beta_retry_after).ok)
        => delay = ParseFloat(response.beta_retry_after).ms

\* ---- C12
\* the last direct call of _calculate_retry_delay took the backoff branch
BackoffProbe == probe.fn = "delay" /\ ~HintUsed(probe.header)

BackoffOf(count) == Min(initial_retry_delay * Pow2(count), max_retry_delay)

\* C12 as stated: without a usable hint the delay for attempt n is
\* min(initial_delay * 2^n, max_delay) times a jitter factor in [0.7, 1.3];
\* it is strictly positive for positive initial_delay and never exceeds
\* 1.3 * max_delay.
C12_Original ==
    BackoffProbe =>
        /\ probe.jitter \in DEFAULT_JITTER_MIN..DEFAULT_JITTER_MAX
        /\ 10 * probe.delay = BackoffOf(probe.count) * probe.jitter
        /\ initial_retry_delay > 0 => probe.delay > 0
        /\ 10 * probe.delay <= DEFAULT_JITTER_MAX * max_retry_delay

\* C12 amended: the same product; for positive initial_delay and positive
\* max_delay it is strictly positive and never exceeds 1.3 * max_delay.
C12_BackoffRule ==
    BackoffProbe =>
        /\ probe.jitter \in DEFAULT_JITTER_MIN..DEFAULT_JITTER_MAX
        /\ 10 * probe.delay = BackoffOf(probe.count) * probe.jitter
        /\ (initial_retry_delay > 0 /\ max_retry_delay > 0)
              => (probe.delay > 0
                  /\ 10 * probe.delay <= DEFAULT_JITTER_MAX * max_retry_delay)

C12_Witness ==
    /\ BackoffProbe /\ probe.header = <<"x">> /\ probe.count = 2
    /\ initial_retry_delay = 10 /\ max_retry_delay = 20
    /\ probe.jitter = DEFAULT_JITTER_MAX /\ probe.delay = 26

\* ---- C13
\* the last two direct calls were backoff calls for the counts k and k + 1,
\* and the backoff for k + 1 is not capped
ConsecutiveProbes ==
    /\ BackoffProbe
    /\ probe.prev.count >= 0 /\ ~HintUsed(probe.prev.header)
    /\ probe.count = probe.prev.count + 1
    /\ initial_retry_delay * Pow2(probe.count) <= max_retry_delay

\* C13 as stated: with no hint, for every k with
\* initial_delay * 2^(k+1) <= max_delay and every pair of jitter draws, the
\* delay for k + 1 is strictly greater than the delay for k.
C13_Original == ConsecutiveProbes => probe.delay > probe.prev.delay

\* C13 amended: the same, for positive initial_delay.
C13_BackoffGrows ==
    (ConsecutiveProbes /\ initial_retry_delay > 0) => probe.delay > probe.prev.delay

C13_Witness ==
    /\ ConsecutiveProbes /\ initial_retry_delay = 10 /\ max_retry_delay = 20
    /\ probe.prev.jitter = DEFAULT_JITTER_MAX /\ probe.jitter = DEFAULT_JITTER_MIN
    /\ probe.prev.delay = 13 /\ probe.delay = 14
\* ---------------------------------------------------------- the constructor
\* SpecInit starts before __init__ has resolved the credentials and runs it
\* on arguments and environments of every shape.
\* an attribute __init__ has not assigned yet
Unset == <<"<unset>">>

\* str(jira_url) of a validated HttpUrl: a url without a path gets the path "/"
HttpUrlStr(u) == IF Len(u) = 1 THEN u \o <<"/">> ELSE u

\* os.getenv(name, "")
GetenvOrEmpty(v) == IF v = Absent THEN <<>> ELSE v

\* OrElse looking at the environment first
OrElse_EnvFirst(a, b) == IF TruthyStr(b) THEN b ELSE a

\* a or b, on Optional[str]
OrElse(a, b) == IF TruthyStr(a) THEN a ELSE b

\* self._get_jira_url(jira_url) (jira_base.py:147-150); a HttpUrl is never falsy
ResolvedUrl(url_arg, url_env) ==
    GetJiraUrl(IF url_arg # Absent THEN HttpUrlStr(url_arg) ELSE GetenvOrEmpty(url_env))

\* ValidateRaises not looking at the token
ValidateRaises_NoToken(u, usr, tok) == ~(TruthyStr(u) /\ TruthyStr(usr))

\* ValidateRaises looking at the url only
ValidateRaises_UrlOnly(u, usr, tok) == ~TruthyStr(u)

\* _validate_credentials raises (jira_base.py:154)
ValidateRaises(u, usr, tok) == ~(TruthyStr(u) /\ TruthyStr(usr) /\ TruthyStr(tok))

\* the first token of an absolute http url (scheme and host), and the tokens
\* that are email addresses
Origins == {"https://x.test", "https://env.test"}
Emails == {"user@example.com", "env@example.com"}

\* the annotations HttpUrl and EmailStr of __init__ accept the string
IsHttpUrl(u) == u # Absent /\ u # <<>> /\ u[1] \in Origins
IsEmail(u) == u # Absent /\ Len(u) = 1 /\ u[1] \in Emails

\* @validate_call rejects the arguments, before the body of __init__ runs
ArgsRejected(url_arg, user_arg) ==
    \/ url_arg # Absent /\ ~IsHttpUrl(url_arg)
    \/ user_arg # Absent /\ ~IsEmail(user_arg)

\* constructor arguments: None or a string, which the annotations accept or not
UrlArgs == {Absent, <<"https://x.test">>, <<"https://x.test", "/", "jira", "/">>,
            <<"x.test">>}
UserArgs == {Absent, <<"user@example.com">>, <<"nobody">>}
TokenArgs == {Absent, <<>>, <<"token">>}

\* the environment: each name unset, or set to a string
UrlEnvs == {Absent, <<"/">>, <<"https://env.test">>, <<"https://env.test", "/">>,
            <<"x.test">>}
UserEnvs == {Absent, <<>>, <<"env@example.com">>, <<"nobody">>}
TokenEnvs == {Absent, <<"env-token">>}

InitInit ==
    /\ jira_url = Unset
    /\ jira_user = Unset
    /\ jira_api_token = Unset
    /\ raw_response \in BOOLEAN
    /\ max_retries \in RetryChoices
    /\ \E d \in DelayChoices : initial_retry_delay = d[1] /\ max_retry_delay = d[2]
    /\ InitRest

\* the exception __init__ ends with, NoException when it returns
ConstructError(url_arg, user_arg, token_arg, env) ==
    IF ArgsRejected(url_arg, user_arg)
    THEN Exc("ValidationError", <<"validation error for JiraBase.__init__">>)
    ELSE IF ValidateRaises(ResolvedUrl(url_arg, env.JIRA_URL),
                           OrElse(user_arg, env.JIRA_USER),
                           OrElse(token_arg, env.JIRA_API_TOKEN))
    THEN Exc("JiraAuthenticationError", <<"All JIRA credentials must be provided either as parameters or through environment variables (JIRA_URL, JIRA_USER, JIRA_API_TOKEN)">>)
    ELSE NoException

\* __init__ (jira_base.py:55-93) in the environment env; where it raises, the
\* caller gets no object, and the attributes stay without a value
Construct(url_arg, user_arg, token_arg, env) ==
    LET e == ConstructError(url_arg, user_arg, token_arg, env)
        u == IF e = NoException THEN ResolvedUrl(url_arg, env.JIRA_URL) ELSE Unset
        usr == IF e = NoException THEN OrElse(user_arg, env.JIRA_USER) ELSE Unset
        tok == IF e = NoException THEN OrElse(token_arg, env.JIRA_API_TOKEN) ELSE Unset
    IN  /\ probe = NoProbe
        /\ jira_url' = u
        /\ jira_user' = usr
        /\ jira_api_token' = tok
        /\ probe' = [fn |-> "init", jira_url |-> url_arg, jira_user |-> user_arg,
                     jira_api_token |-> token_arg, env |-> env,
                     raises |-> e # NoException, error |-> e,
                     attrs |-> <<u, usr, tok, raw_response, max_retries,
                                 initial_retry_delay, max_retry_delay>>]
        /\ UNCHANGED <<other, raw_response, max_retries, initial_retry_delay, max_retry_delay,
                       sessVars, pc, localVars, obsVars, scopeVars>>

NextInit ==
    \E url_arg \in UrlArgs, user_arg \in UserArgs, token_arg \in TokenArgs,
       env \in [JIRA_URL : UrlEnvs, JIRA_USER : UserEnvs, JIRA_API_TOKEN : TokenEnvs] :
         Construct(url_arg, user_arg, token_arg, env)

SpecInit == InitInit /\ [][NextInit]_vars

\* ------------------------------------------------ one call after another
\* SpecRetry runs _request_jira calls one after the other, the caller noting
\* how each of them ended.
ReturnNoting == Finish([fn |-> "call", retries |-> retry_count, kind |-> result.kind])

NextRetry == SendFew \/ RequestFew \/ Sleep \/ ReturnNoting

SpecRetry == Init /\ [][NextRetry]_vars

\* SpecTerm is SpecRetry where no session.request and no time.sleep hangs:
\* a call that can take a step of its loop takes one
SpecTerm == Init /\ [][NextRetry]_vars /\ WF_vars(RequestFew) /\ WF_vars(Sleep)

\* SpecFail is SpecRetry with _ensure_session and close called between
\* the calls
NextFail == Acquire \/ Close \/ SendFew \/ RequestFew \/ Sleep \/ ReturnNoting

SpecFail == Init /\ [][NextFail]_vars

\* --------------------------------------------- calls with each HTTP method
\* SpecMethod makes calls one after another, each with any of the methods,
\* and the caller notes how the call before went.
MethodInputs ==
    [method : Methods, context_path : {PathField}, params : {<<>>},
     data : {<<>>, <<DictB>>}]

SendMethod == \E a \in MethodInputs : SendCall(a)

ReturnRecording ==
    Finish([fn |-> "sent", method |-> args.method, received |-> received,
            attempts |-> attempts, sleeps |-> sleeps, result |-> result])

NextMethod == SendMethod \/ RequestFew \/ Sleep \/ ReturnRecording

SpecMethod == Init /\ [][NextMethod]_vars

\* --------------------------------------------------- the resource operations
\* SpecOps calls get_fields (issue_fields.py) and enhanced_search
\* (issue_search.py) on a client; the caller notes the operation, its
\* arguments and what it got back.
PathSearch == <<"search", "/", "jql">>

\* arguments of enhanced_search, as Python literals
SearchInputs ==
    [jql : {<<"'", "project = X", "'">>},
     next_page_token : {None, <<"'", "tok", "'">>},
     max_results : {<<"5", "0">>},
     fields : {None, <<"[", "'", "summary", "'", "]">>},
     expand : {None, <<"'", "'">>},
     properties : {None, <<"[", "'", "p", "'", "]">>},
     fields_by_keys : {<<"False">>, <<"True">>},
     fail_fast : {<<"False">>, <<"True">>},
     reconcile_issues : {None, <<"[", "]">>, <<"[", "1", "]">>}]

\* SearchData passing reconcile_issues on as it was given
SearchData_NoDefault(in) ==
    << <<"jql", in.jql>>,
       <<"nextPageToken", in.next_page_token>>,
       <<"maxResults", in.max_results>>,
       <<"fields", in.fields>>,
       <<"expand", in.expand>>,
       <<"properties", in.properties>>,
       <<"fieldsByKeys", in.fields_by_keys>>,
       <<"failFast", in.fail_fast>>,
       <<"reconcileIssues", in.reconcile_issues>> >>

\* the dict enhanced_search passes as data (issue_search.py:46-58)
SearchData(in) ==
    << <<"jql", in.jql>>,
       <<"nextPageToken", in.next_page_token>>,
       <<"maxResults", in.max_results>>,
       <<"fields", in.fields>>,
       <<"expand", in.expand>>,
       <<"properties", in.properties>>,
       <<"fieldsByKeys", in.fields_by_keys>>,
       <<"failFast", in.fail_fast>>,
       <<"reconcileIssues", IF in.reconcile_issues # None THEN in.reconcile_issues
                            ELSE <<"[", "]">> >> >>

\* OpResult turning an error of _request_jira into the value None
OpResult_Swallowed(r) == IF r.kind = "error" THEN Returned("none", None, NoResponse) ELSE r

\* return self._request_jira(...): the operation ends as the call ended
OpResult(r) == r

\* what the caller notes when it calls an operation
Called(fn, in) == [fn |-> fn, input |-> in, calls |-> calls, done |-> FALSE,
                   from_send |-> NoResult, result |-> NoResult]

\* get_fields (issue_fields.py:11-28)
GetFields ==
    SendBy([method |-> "GET", context_path |-> PathField, params |-> <<>>, data |-> <<>>],
           Called("get_fields", <<>>))

\* enhanced_search (issue_search.py:9-59)
EnhancedSearch(in) ==
    SendBy([method |-> "POST", context_path |-> PathSearch, params |-> <<>>,
            data |-> <<SearchData(in)>>],
           Called("enhanced_search", in))

Search == \E in \in SearchInputs : EnhancedSearch(in)

\* the _request_jira call ends, and the operation with it: its arguments
\* are dropped
OpReturns ==
    Finish([probe EXCEPT !.done = TRUE, !.input = <<>>, !.from_send = result,
                         !.result = OpResult(result)])

NextOps == GetFields \/ Search \/ RequestFew \/ Sleep \/ OpReturns

SpecOps == Init /\ [][NextOps]_vars

\* -------------------------------------------------- two clients, one process
\* SpecTwo runs a second JiraBase object next to the first, in any
\* interleaving of the steps of the two; sessions holds the Session objects
\* of both.
OtherClient ==
    [pc |-> "idle", session |-> 0, retry_count |-> 0,
     jira_url |-> <<"https://env.test">>, jira_user |-> <<"env@example.com">>,
     jira_api_token |-> <<"env-token">>, raw_response |-> FALSE, max_retries |-> 1,
     initial_retry_delay |-> 1000, max_retry_delay |-> 60000]

InitTwo == InitConfig /\ InitSelf /\ other = OtherClient

\* _ensure_session of the second client (jira_base.py:110-145)
OtherNewSession ==
    [closed |-> FALSE,
     auth |-> <<other.jira_user, other.jira_api_token>>,
     headers |-> {<<"Accept", "application/json">>, <<"Content-Type", "application/json">>},
     retry_total |-> IF other.max_retries > 0 THEN other.max_retries ELSE 0,
     status_forcelist |-> IF other.max_retries > 0 THEN {429, 500, 502, 503, 504} ELSE {}]

OtherEnsuredSession == IF other.session = 0 THEN Len(sessions) + 1 ELSE other.session

OtherEnsuredSessions ==
    IF other.session = 0 THEN Append(sessions, OtherNewSession) ELSE sessions

\* what a step of the second client leaves alone: all of the first client
selfVars == <<cfgVars, session, pc, localVars, obsVars, scopeVars, probe>>

OtherAcquire ==
    /\ other.pc = "idle"
    /\ other.session # 0 \/ Len(sessions) < MaxSessions
    /\ other' = [other EXCEPT !.session = OtherEnsuredSession]
    /\ sessions' = OtherEnsuredSessions
    /\ UNCHANGED selfVars

\* close of the second client (jira_base.py:104-108)
OtherClose ==
    /\ other.pc = "idle"
    /\ other' = [other EXCEPT !.session = 0]
    /\ sessions' = IF other.session # 0
                   THEN [sessions EXCEPT ![other.session].closed = TRUE]
                   ELSE sessions
    /\ UNCHANGED selfVars

\* its _request_jira up to the loop (jira_base.py:292-302)
OtherSend ==
    /\ other.pc = "idle"
    /\ other.session # 0 \/ Len(sessions) < MaxSessions
    /\ other' = [other EXCEPT !.session = OtherEnsuredSession, !.pc = "request",
                              !.retry_count = InitialRetryCount]
    /\ sessions' = OtherEnsuredSessions
    /\ UNCHANGED selfVars

\* a pass of its loop that receives a 429 within the budget and sleeps
\* (jira_base.py:317-328)
OtherRateLimited ==
    /\ other.pc = "request"
    /\ ~other.raw_response
    /\ ~(other.retry_count >= other.max_retries)
    /\ other' = [other EXCEPT !.retry_count = @ + 1]
    /\ UNCHANGED <<selfVars, sessions>>

\* a pass of its loop that returns or raises: the locals are dropped
OtherEnds ==
    /\ other.pc = "request"
    /\ other' = [other EXCEPT !.pc = "idle", !.retry_count = 0]
    /\ UNCHANGED <<selfVars, sessions>>

OtherStep == OtherAcquire \/ OtherClose \/ OtherSend \/ OtherRateLimited \/ OtherEnds

NextTwo ==
    \/ Acquire \/ Close \/ EnterScope \/ ExitScope
    \/ SendFew \/ RequestFew \/ Sleep \/ Return
    \/ OtherStep

SpecTwo == InitTwo /\ [][NextTwo]_vars

\* ------------------------------------------- two threads on one client
\* SpecThreads runs a second thread on the same client: the first thread
\* makes its calls as before, each statement of close and _ensure_session
\* of the second thread is a step of its own, and nothing in jira_base.py
\* orders the steps of the two. `other` is the second thread: where it is,
\* what its last _ensure_session returned (0 for None) and what it raised.
OtherThread == [pc |-> "idle", op |-> "", ops |-> 0, got |-> 0, error |-> ""]

InitThreads == InitConfig /\ InitSelf /\ other = OtherThread

\* the second thread may start a call
ThreadIdle == other.pc = "idle" /\ other.ops < MaxCalls

ThreadStarts(op, at) ==
    [pc |-> at, op |-> op, ops |-> other.ops + 1, got |-> 0, error |-> ""]

\* the thread has raised on an attribute of None
ThreadFails == [other EXCEPT !.pc = "idle", !.error = "AttributeError"]

\* if self._session: (jira_base.py:106)
CloseCheck ==
    /\ ThreadIdle
    /\ other' = ThreadStarts("close", IF session # 0 THEN "close_call" ELSE "idle")
    /\ UNCHANGED <<selfVars, sessions>>

\* self._session.close() (jira_base.py:107)
CloseCall ==
    /\ other.pc = "close_call"
    /\ IF session = 0
       THEN other' = ThreadFails /\ sessions' = sessions
       ELSE /\ sessions' = [sessions EXCEPT ![session].closed = TRUE]
            /\ other' = [other EXCEPT !.pc = "close_clear"]
    /\ UNCHANGED selfVars

\* self._session = None (jira_base.py:108)
CloseClear ==
    /\ other.pc = "close_clear"
    /\ session' = 0
    /\ other' = [other EXCEPT !.pc = "idle"]
    /\ UNCHANGED <<cfgVars, sessions, pc, localVars, obsVars, scopeVars, probe>>

\* if self._session is None: (jira_base.py:112)
EnsureCheck ==
    /\ ThreadIdle
    /\ other' = ThreadStarts("ensure", IF session = 0 THEN "construct" ELSE "return")
    /\ UNCHANGED <<selfVars, sessions>>

\* self._session = requests.Session() (jira_base.py:113)
EnsureConstruct ==
    /\ other.pc = "construct"
    /\ Len(sessions) < MaxSessions
    /\ sessions' = Append(sessions, BareSession)
    /\ session' = Len(sessions) + 1
    /\ other' = [other EXCEPT !.pc = "auth"]
    /\ UNCHANGED <<cfgVars, pc, localVars, obsVars, scopeVars, probe>>

\* the credential test and self._session.auth = ... (jira_base.py:117-124)
EnsureAuth ==
    /\ other.pc = "auth"
    /\ IF jira_user = Absent \/ jira_api_token = Absent
       THEN /\ other' = [other EXCEPT !.pc = "idle", !.error = "JiraAuthenticationError"]
            /\ sessions' = sessions
       ELSE IF session = 0
       THEN other' = ThreadFails /\ sessions' = sessions
       ELSE /\ sessions' = [sessions EXCEPT ![session].auth = NewSession.auth]
            /\ other' = [other EXCEPT !.pc = "headers"]
    /\ UNCHANGED selfVars

\* self._session.headers.update(...) (jira_base.py:127-132)
EnsureHeaders ==
    /\ other.pc = "headers"
    /\ IF session = 0
       THEN other' = ThreadFails /\ sessions' = sessions
       ELSE /\ sessions' = [sessions EXCEPT ![session].headers = NewSession.headers]
            /\ other' = [other EXCEPT !.pc = "mount"]
    /\ UNCHANGED selfVars

\* the Retry adapter mounted for a positive max_retries (jira_base.py:135-143)
EnsureMount ==
    /\ other.pc = "mount"
    /\ IF max_retries > 0 /\ session = 0
       THEN other' = ThreadFails /\ sessions' = sessions
       ELSE /\ sessions' = IF max_retries > 0
                           THEN [sessions EXCEPT
                                   ![session].retry_total = NewSession.retry_total,
                                   ![session].status_forcelist = NewSession.status_forcelist]
                           ELSE sessions
            /\ other' = [other EXCEPT !.pc = "return"]
    /\ UNCHANGED selfVars

\* return self._session (jira_base.py:145)
EnsureReturn ==
    /\ other.pc = "return"
    /\ other' = [other EXCEPT !.pc = "idle", !.got = session]
    /\ UNCHANGED <<selfVars, sessions>>

ThreadStep ==
    \/ CloseCheck \/ CloseCall \/ CloseClear
    \/ EnsureCheck \/ EnsureConstruct \/ EnsureAuth \/ EnsureHeaders \/ EnsureMount
    \/ EnsureReturn

NextThreads ==
    \/ Acquire \/ Close \/ SendFew \/ RequestFew \/ Sleep \/ Return
    \/ ThreadStep

SpecThreads == InitThreads /\ [][NextThreads]_vars

\* ------------------------------------------ a client from __init__ to close
\* SpecLife constructs a client and runs its operations on it.
FewUrlArgs == {Absent, <<"https://x.test">>}
FewUserArgs == {Absent, <<"user@example.com">>}
FewTokenArgs == {Absent, <<"token">>}

\* an environment without the three names, and one with all of them
FewEnvs ==
    {[JIRA_URL |-> Absent, JIRA_USER |-> Absent, JIRA_API_TOKEN |-> Absent],
     [JIRA_URL |-> <<"https://env.test", "/">>, JIRA_USER |-> <<"env@example.com">>,
      JIRA_API_TOKEN |-> <<"env-token">>]}

ConstructFew ==
    \E url_arg \in FewUrlArgs, user_arg \in FewUserArgs, token_arg \in FewTokenArgs,
       env \in FewEnvs :
         Construct(url_arg, user_arg, token_arg, env)

\* there is a client object to call
Constructed == probe.fn = "init" /\ ~probe.raises

LifeStep ==
    \/ Acquire \/ Close \/ EnterScope \/ BodyFails \/ Propagate \/ ExitScope
    \/ SendFew \/ RequestFew \/ Sleep \/ Return

NextLife == ConstructFew \/ (Constructed /\ LifeStep)

SpecLife == InitInit /\ [][NextLife]_vars

\* ------------------------------------------------------------------ C14
\* C14: after a with block has been left the session handle is None, whether
\* the block ended normally, by an exception of its body or by an error of a
\* _request_jira call, and the exception that ended it is still in flight.
C14_ScopedSession ==
    last_op.name = "exit" =>
        /\ scope = "out"
        /\ session = 0
        /\ scope_exc = last_op.exc
        /\ \A i \in 1..Len(sessions) : sessions[i].closed

\* a block left by the error of a _request_jira call
C14_Witness ==
    /\ last_op.name = "exit"
    /\ last_op.handle # 0
    /\ scope_exc.type = "JiraRequestError"

\* ------------------------------------------------------------------ C15
\* C15: close() called while the handle is None, never set or cleared by an
\* earlier close, raises nothing, leaves the handle None and closes nothing.
C15_CloseIdempotent ==
    last_op.name = "close" /\ last_op.handle = 0 =>
        /\ ~last_op.raised
        /\ session = 0
        /\ Len(sessions) = last_op.made

\* a close() right after the close() of a session
C15_Witness ==
    /\ last_op.name = "close"
    /\ last_op.handle = 0
    /\ session = 0
    /\ Len(sessions) = 1
    /\ sessions[1].closed

\* ------------------------------------------------------------------ C16
\* the operations that call _ensure_session
Ensuring == {"acquire", "send", "enter"}

\* C16: after close() or the end of a with block the handle is None and the
\* session it held is closed; an _ensure_session, _request_jira or with that
\* finds the handle None makes a session that did not exist before, open,
\* and sets the handle to it.
C16_FreshAfterClose ==
    /\ last_op.name \in {"close", "exit"} =>
          /\ session = 0
          /\ last_op.handle # 0 => sessions[last_op.handle].closed
    /\ last_op.name \in Ensuring /\ last_op.handle = 0 =>
          /\ session = last_op.made + 1
          /\ Len(sessions) = session
          /\ ~sessions[session].closed

\* a _request_jira call after a close() made the second session
C16_Witness ==
    /\ last_op.name = "send"
    /\ last_op.handle = 0
    /\ session = 2
    /\ sessions[1].closed
    /\ ~sessions[2].closed

\* ------------------------------------------------------------------ C17
\* the sessions made by the client and not closed
Live == {i \in 1..Len(sessions) : ~sessions[i].closed}

\* C17: at every point the client has at most one session that is not closed,
\* the one its handle holds; _ensure_session on a client whose handle is set
\* keeps the handle and makes no session.
C17_OneLiveSession ==
    /\ Cardinality(Live) <= 1
    /\ Live = IF session = 0 THEN {} ELSE {session}
    /\ last_op.name = "acquire" /\ last_op.handle # 0 =>
          /\ session = last_op.handle
          /\ Len(sessions) = last_op.made

\* _ensure_session on the second session of the client
C17_Witness ==
    /\ last_op.name = "acquire"
    /\ last_op.handle = 2
    /\ session = 2
    /\ sessions[1].closed

\* ------------------------------------------------------------------ C18
\* C18: with raw_response set, a _request_jira call that received a response
\* has ended: it returned that response as it is, whatever its status, after
\* one session.request and no sleep; and no call of such a client ends with
\* a JiraRateLimitError or a JiraRequestError.
C18_RawResponse ==
    raw_response =>
        /\ pc # "sleep" /\ sleeps = 0 /\ attempts <= 1
        /\ received # <<>> =>
              /\ pc = "done"
              /\ attempts = 1
              /\ result = Returned("response", <<>>, response)
              /\ response.status_code = received[1][1]
        /\ ~RaisedType("JiraRateLimitError")
        /\ ~RaisedType("JiraRequestError")

\* a 429 handed back by a client that has retries left
C18_Witness ==
    /\ raw_response /\ max_retries > 0 /\ pc = "done"
    /\ result.kind = "response"
    /\ result.response.status_code = HTTP_TOO_MANY_REQUESTS

\* ------------------------------------------------------------------ C19
\* the last session.request of the running call raised
LastAttemptRaised == attempts > Len(received)

\* e wrapped in a JiraRequestError that names its class as the cause and
\* carries its text
WrappedBy(e, w) ==
    /\ w.type = "JiraRequestError"
    /\ w.cause = e.type
    /\ Contains(w.msg, e.msg)
    /\ e.type \in RequestExceptions => w.msg = <<"Request error: ">> \o e.msg

\* C19: a _request_jira call whose session.request raised has ended with an
\* error, without another session.request, a sleep or a value: in classified
\* mode a JiraRequestError made from the exception and naming it as its
\* cause, in raw-response mode the exception itself.
C19_FailureNotSwallowed ==
    LastAttemptRaised =>
        /\ pc = "done"
        /\ attempts = Len(received) + 1
        /\ result.kind = "error"
        /\ \E e \in TransportErrors :
              IF raw_response THEN result.error = e ELSE WrappedBy(e, result.error)

\* a timeout of the second attempt, after a 429 and a sleep
C19_Witness ==
    /\ LastAttemptRaised /\ ~raw_response /\ attempts = 2 /\ sleeps = 1
    /\ result.error.cause = "Timeout"

\* ------------------------------------------------------------------ C20
\* the argument was given: not None and not ""
Given(arg) == arg # Absent /\ arg # <<>>

\* r is v without the "/" at its end
StrippedOf(r, v) ==
    /\ Len(r) <= Len(v)
    /\ r = SubSeq(v, 1, Len(r))
    /\ \A i \in (Len(r) + 1)..Len(v) : v[i] = "/"
    /\ r # <<>> => r[Len(r)] # "/"

\* C20 as stated: each credential of a constructed client is the argument of
\* the constructor when one is given and the environment entry otherwise,
\* and the url does not end with "/".
C20_Original ==
    Constructed =>
        /\ jira_url = IF Given(probe.jira_url) THEN probe.jira_url ELSE probe.env.JIRA_URL
        /\ jira_user = IF Given(probe.jira_user) THEN probe.jira_user ELSE probe.env.JIRA_USER
        /\ jira_api_token = IF Given(probe.jira_api_token) THEN probe.jira_api_token
                            ELSE probe.env.JIRA_API_TOKEN
        /\ jira_url[Len(jira_url)] # "/"

\* C20: the user and the token of a constructed client are the arguments of
\* the constructor when given and the entries JIRA_USER and JIRA_API_TOKEN
\* of the environment otherwise; its url is the url argument when given and
\* the entry JIRA_URL otherwise, without the "/" at its end.
C20_CredentialPrecedence ==
    Constructed =>
        /\ StrippedOf(jira_url, IF Given(probe.jira_url) THEN probe.jira_url
                                ELSE probe.env.JIRA_URL)
        /\ jira_user = IF Given(probe.jira_user) THEN probe.jira_user ELSE probe.env.JIRA_USER
        /\ jira_api_token = IF Given(probe.jira_api_token) THEN probe.jira_api_token
                            ELSE probe.env.JIRA_API_TOKEN
        /\ jira_url # <<>> /\ jira_user # <<>> /\ jira_api_token # <<>>

\* every argument given and every environment entry set to something else
C20_Witness ==
    /\ Constructed
    /\ Given(probe.jira_url) /\ Given(probe.jira_user) /\ Given(probe.jira_api_token)
    /\ TruthyStr(probe.env.JIRA_URL) /\ TruthyStr(probe.env.JIRA_USER)
    /\ TruthyStr(probe.env.JIRA_API_TOKEN)
    /\ jira_url = <<"https://x.test", "/", "jira">>
    /\ jira_user = <<"user@example.com">>
    /\ jira_api_token = <<"token">>

\* ------------------------------------------------------------------ C21
\* a client object exists
Exists == jira_url # Unset

\* a resolved value that is None or ""
Missing(v) == v = Absent \/ v = <<>>

\* a url of which nothing is left without its trailing separators
BlankUrl(v) == v = Absent \/ \A i \in 1..Len(v) : v[i] = "/"

\* with the arguments and the environment of the last __init__, one of the
\* three credentials is missing after the fallback
Incomplete ==
    \/ BlankUrl(IF Given(probe.jira_url) THEN probe.jira_url ELSE probe.env.JIRA_URL)
    \/ Missing(IF Given(probe.jira_user) THEN probe.jira_user ELSE probe.env.JIRA_USER)
    \/ Missing(IF Given(probe.jira_api_token) THEN probe.jira_api_token
               ELSE probe.env.JIRA_API_TOKEN)

\* C21: __init__ called with arguments of the declared types raises
\* JiraAuthenticationError exactly when, after the fallback to the
\* environment, the url, the user or the token is missing or empty, and
\* returns a client exactly when all three are there; every client that
\* exists has a non-empty url, user and token.
C21_FailClosed ==
    /\ (probe.fn = "init" /\ ~ArgsRejected(probe.jira_url, probe.jira_user)) =>
          /\ Incomplete <=> probe.error.type = "JiraAuthenticationError"
          /\ ~Incomplete <=> Exists
    /\ Exists => /\ ~Missing(jira_url) /\ ~Missing(jira_user) /\ ~Missing(jira_api_token)
                 /\ jira_user # Unset /\ jira_api_token # Unset

\* url and token given, the user neither given nor in the environment
C21_Witness ==
    /\ probe.fn = "init"
    /\ probe.jira_url = <<"https://x.test">> /\ probe.jira_api_token = <<"token">>
    /\ probe.jira_user = Absent /\ probe.env.JIRA_USER = <<>>
    /\ probe.error.type = "JiraAuthenticationError"
    /\ ~Exists

\* ------------------------------------------------------------------ C22
\* C22: every client that exists has a url that is an absolute http url and
\* a user that is an email address, wherever the two came from, and an
\* __init__ whose url or user is not of that shape raises
\* JiraAuthenticationError.
C22_CredentialValidation ==
    /\ Exists => IsHttpUrl(jira_url) /\ IsEmail(jira_user)
    /\ (probe.fn = "init" /\ ArgsRejected(probe.jira_url, probe.jira_user)) =>
          probe.error.type = "JiraAuthenticationError"

\* ------------------------------------------------------------------ C23
\* C23: on a client that __init__ returned, no _ensure_session, with
\* statement, _request_jira or close ends with JiraAuthenticationError.
C23_AuthOnlyAtConstruction ==
    Exists =>
        /\ ~last_op.raised
        /\ ~RaisedType("JiraAuthenticationError")
        /\ scope_exc.type # "JiraAuthenticationError"
        /\ \A i \in 1..Len(sessions) : sessions[i].auth = <<jira_user, jira_api_token>>

\* a client with user and token from the environment made its second session
C23_Witness ==
    /\ Exists
    /\ probe.jira_user = Absent /\ probe.jira_api_token = Absent
    /\ last_op.name = "acquire" /\ last_op.handle = 0
    /\ session = 2

\* ------------------------------------------------------------------ C24
\* C24: the url, the user, the token, raw_response, max_retries and the two
\* delays of a client are, after any of its operations, ended normally or
\* by an error, the ones __init__ gave it.
C24_ConfigImmutable ==
    Exists => <<jira_url, jira_user, jira_api_token, raw_response, max_retries,
                initial_retry_delay, max_retry_delay>> = probe.attrs

\* after a with block that a failed second _request_jira call ended
C24_Witness ==
    /\ Exists
    /\ calls = 2
    /\ last_op.name = "exit"
    /\ scope_exc.type = "JiraRequestError"

\* ------------------------------------------------------------------ C25
\* the url of the API entry point of the client, whichever way its base url
\* was written
ApiRoot == <<"https://x.test", "/rest/api/", "3", "/">>

\* the path without the "/" at its two ends
RECURSIVE Trimmed(_)
Trimmed(path) ==
    IF path = <<>> THEN <<>>
    ELSE IF Head(path) = "/" THEN Trimmed(Tail(path))
    ELSE IF path[Len(path)] = "/" THEN Trimmed(SubSeq(path, 1, Len(path) - 1))
    ELSE path

\* the path holds nothing but white space
Blank(path) == \A i \in 1..Len(path) : path[i] \in Whitespace

\* C25 as stated: for every non-empty path the url of the request is the base
\* without its trailing "/", then "/rest/api/3/", then the path without the
\* "/" at its ends.
C25_Original ==
    (pc # "idle" /\ args.context_path # <<>>) =>
        /\ Prepared
        /\ url = ApiRoot \o Trimmed(args.context_path)

\* C25: for every path that holds more than white space the url of the
\* request is the base without its trailing "/", then "/rest/api/3/", then
\* the path without the "/" at its ends, so that "/field/" on the base
\* "https://x.test/" and "field" on "https://x.test" give the same url.
C25_UrlBuilding ==
    (pc # "idle" /\ ~Blank(args.context_path)) =>
        /\ Prepared
        /\ url = ApiRoot \o Trimmed(args.context_path)
        /\ Trimmed(args.context_path) = <<"field">> =>
              url = <<"https://x.test", "/rest/api/", "3", "/", "field">>

C25_Witness ==
    /\ Prepared
    /\ args.context_path = <<"/", "field", "/">>
    /\ url = <<"https://x.test", "/rest/api/", "3", "/", "field">>

\* ------------------------------------------------------------------ C26
\* C26: in every _request_jira call, the first as well as one that follows
\* a call that slept, retry_count counts the sleeps of this call alone: it
\* is 0 until the first sleep, and a classified call that ends on a 429 has
\* slept max_retries times (not at all for a negative max_retries).
C26_RetryStatePerCall ==
    pc # "idle" =>
        /\ retry_count = sleeps
        /\ attempts = 0 => retry_count = 0
        /\ (Classified /\ pc = "done" /\ AllReturned /\ LastStatus = HTTP_TOO_MANY_REQUESTS)
              => sleeps = Max(max_retries, 0)

\* the call before used the two retries, and this one used two again
C26_Witness ==
    /\ probe.fn = "call" /\ probe.retries = 2
    /\ calls = 2 /\ pc = "done"
    /\ sleeps = 2 /\ attempts = 3
    /\ LastStatus = HTTP_TOO_MANY_REQUESTS

\* ------------------------------------------------------------------ C27
\* the attributes and the retry state of the second client
OtherOwn == [other EXCEPT !.pc = "idle"]

\* the session handle, the attributes and the retry state of the first
SelfOwn == <<cfgVars, session, retry_count>>

\* the two clients hold different sessions, each open and made with the
\* credentials of its holder
OwnSessions ==
    /\ session # 0 => /\ session # other.session
                      /\ ~sessions[session].closed
                      /\ sessions[session].auth = <<jira_user, jira_api_token>>
    /\ other.session # 0 => /\ ~sessions[other.session].closed
                            /\ sessions[other.session].auth =
                                    <<other.jira_user, other.jira_api_token>>

\* C27: with two clients in a process, under every interleaving of their
\* operations, a step that changes the session handle, the attributes or
\* the retry count of one client changes none of the other, and the
\* session a client holds is its own and is open whatever the other closed.
C27_Independent ==
    /\ []OwnSessions
    /\ [][/\ OtherOwn' # OtherOwn => SelfOwn' = SelfOwn
          /\ SelfOwn' # SelfOwn => OtherOwn' = OtherOwn]_vars

\* the first client left its with block and closed its session while the
\* second, on its own session, was in its first retry
C27_Witness ==
    /\ last_op.name = "exit" /\ last_op.handle # 0
    /\ session = 0
    /\ other.session # 0 /\ other.pc = "request" /\ other.retry_count = 1
    /\ ~sessions[other.session].closed

\* ------------------------------------------------------------------ C28
\* C28: the retry policy mounted on a session retries server errors (5xx)
\* only, so not status 429, and its retry count is the same on every
\* session, whatever the max_retries of the client that made it.
C28_TransportPolicy ==
    \A i \in 1..Len(sessions) :
        /\ HTTP_TOO_MANY_REQUESTS \notin sessions[i].status_forcelist
        /\ sessions[i].status_forcelist \subseteq 500..599
        /\ \A j \in 1..Len(sessions) : sessions[j].retry_total = sessions[i].retry_total

\* ------------------------------------------------------------------ C29
\* an operation was called
OpCalled == probe.fn \in {"get_fields", "enhanced_search"}

HasKey(text, k) == Contains(text, <<"\"", k, "\"", ":">>)

\* C30: the body enhanced_search transmits is a JSON object that always has
\* jql, maxResults, fieldsByKeys, failFast (false included) and
\* reconcileIssues ([] when the argument is None), and has nextPageToken,
\* fields, expand and properties exactly when the argument is not None.
C30_SearchBody ==
    (probe.fn = "enhanced_search" /\ ~probe.done /\ attempts >= 1) =>
        /\ sent.data # <<>>
        /\ JsonLoads(sent.data[1]).ok
        /\ LET body == sent.data[1]
               in == probe.input
           IN  /\ HasKey(body, "jql") /\ HasKey(body, "maxResults")
               /\ HasKey(body, "nextPageToken") <=> in.next_page_token # None
               /\ HasKey(body, "fields") <=> in.fields # None
               /\ HasKey(body, "expand") <=> in.expand # None
               /\ HasKey(body, "properties") <=> in.properties # None
               /\ HasKey(body, "fieldsByKeys") /\ HasKey(body, "failFast")
               /\ HasKey(body, "reconcileIssues")
               /\ in.fail_fast = <<"False">> =>
                     Contains(body, <<"\"", "failFast", "\"", ":", "false">>)
               /\ in.reconcile_issues = None =>
                     Contains(body, <<"\"", "reconcileIssues", "\"", ":", "[", "]">>)

\* a search with nothing but the query
C30_Witness ==
    /\ probe.fn = "enhanced_search" /\ attempts >= 1
    /\ sent.data = << <<"{", "\"", "jql", "\"", ":", "\"", "project = X", "\"", ",",
                        "\"", "maxResults", "\"", ":", "5", "0", ",",
                        "\"", "fieldsByKeys", "\"", ":", "false", ",",
                        "\"", "failFast", "\"", ":", "false", ",",
                        "\"", "reconcileIssues", "\"", ":", "[", "]", "}">> >>

\* ------------------------------------------------------------------ C31
\* the call in hand was turned down for its path
PathRejected ==
    /\ pc = "done" /\ last_op.name = "send"
    /\ RaisedType("ValueError") /\ attempts = 0
    /\ BuildApiUrl(args.context_path).raises

\* C31: a send that is rejected for its path has made no session: where
\* the handle was None before the call it is None after it, and no
\* session was constructed.
C31_PathBeforeSession ==
    (PathRejected /\ last_op.handle = 0) =>
        session = 0 /\ Len(sessions) = last_op.made


\* ------------------------------------------------------------------ C32
\* the delays _calculate_retry_delay can return for the response in hand
DelaysOf(resp, count) ==
    {CalculateRetryDelay(count, resp.retry_after, j) : j \in JitterDraws \cup {NoDraw}}

\* C32: in a classified call that has made an attempt, the loop sleeps
\* once between two attempts and nowhere else: an attempt is about to be
\* made only after as many sleeps as attempts, a sleep is pending only
\* after a 429 and for a delay computed from that response, and the call
\* ends with one sleep less than attempts.
C32_SleepsBetweenAttempts ==
    Classified =>
        /\ pc = "request" => sleeps = attempts
        /\ pc = "sleep" => /\ sleeps = attempts - 1
                           /\ response.status_code = HTTP_TOO_MANY_REQUESTS
                           /\ LastStatus = HTTP_TOO_MANY_REQUESTS
                           /\ delay \in DelaysOf(response, retry_count)
        /\ (pc = "done" /\ attempts >= 1) => sleeps = attempts - 1

\* a call that slept for the hint of its first 429 and for the backoff of
\* its second, and ended on the third attempt
C32_Witness ==
    /\ Classified /\ pc = "done"
    /\ attempts = 3 /\ sleeps = 2
    /\ received[1] = <<HTTP_TOO_MANY_REQUESTS, <<"2">>>>
    /\ received[2] = <<HTTP_TOO_MANY_REQUESTS, Absent>>
    /\ result.kind \in {"json", "true"}

\* ------------------------------------------------------------------ C33
\* what session.request gave a call, in order: the responses it returned
\* and, last, a mark where it raised
InputsOf(rcvd, n) == IF n > Len(rcvd) THEN Append(rcvd, <<0, Absent>>) ELSE rcvd

PrefixOf(a, b) == Len(a) <= Len(b) /\ SubSeq(b, 1, Len(a)) = a

\* the call in hand and the call before were given the same by
\* session.request, as far as the shorter of the two went
SameResponses ==
    /\ pc = "done" /\ probe.fn = "sent"
    /\ attempts >= 1 /\ probe.attempts >= 1
    /\ \/ PrefixOf(InputsOf(received, attempts), InputsOf(probe.received, probe.attempts))
       \/ PrefixOf(InputsOf(probe.received, probe.attempts), InputsOf(received, attempts))

\* C33: two _request_jira calls on a client that get the same responses
\* make the same number of attempts and of sleeps and end with the same
\* value or error, whatever the method of each: a POST or a PUT answered
\* by 429 is sent again as a GET is.
C33_MethodBlind ==
    SameResponses =>
        /\ attempts = probe.attempts
        /\ sleeps = probe.sleeps
        /\ result = probe.result

\* a POST that was sent three times and gave up as the GET before it did
C33_Witness ==
    /\ SameResponses
    /\ probe.method = "GET" /\ args.method = "POST"
    /\ Classified /\ attempts = 3 /\ sleeps = 2
    /\ RaisedType("JiraRequestError")
    /\ AllReturned /\ LastStatus = HTTP_TOO_MANY_REQUESTS

\* ------------------------------------------------------------------ C34
\* the call is in its loop, before a session.request or in a sleep
InLoop == pc \in {"request", "sleep"}

\* the most session.request calls of one _request_jira call
AttemptBound == IF raw_response THEN 1 ELSE Max(max_retries, 0) + 1

\* C34: where every session.request returns or raises and every sleep
\* ends, a _request_jira call that entered its loop comes to its return or
\* raise, after at most max(max_retries, 0) + 1 session.request calls in
\* classified mode and after exactly one in raw-response mode.
C34_Terminates ==
    /\ [](pc # "idle" => attempts <= AttemptBound)
    /\ []((pc = "done" /\ raw_response /\ url # <<>>) => attempts = 1)
    /\ (InLoop ~> pc = "done")

\* a classified call that ended with its last allowed attempt
C34_Witness ==
    /\ pc = "done" /\ ~raw_response
    /\ max_retries = MaxRetries
    /\ attempts = AttemptBound
    /\ sleeps = MaxRetries

\* ------------------------------------------------------------------ C35
\* C35: with a second thread on the client, no session.request of a
\* _request_jira call goes through a session that was closed, and no call
\* of close or _ensure_session raises because self._session became None
\* between two of its statements.
C35_NoHalfClosed ==
    /\ [](other.error # "AttributeError")
    /\ [][attempts' = attempts + 1 => ~sessions[sess].closed]_vars

\* ------------------------------------------------------------------ C36
\* s has the basic-auth, the default headers and the retry adapter that
\* _ensure_session sets
Configured(s) == s = [NewSession EXCEPT !.closed = s.closed]

\* C36: with two threads acquiring, a session handed to a caller is fully
\* configured, the two callers hold the same session, and while nothing
\* has been closed only one session has been constructed.
C36_AcquireComplete ==
    /\ pc \in {"request", "sleep"} => Configured(sessions[sess])
    /\ (other.pc = "idle" /\ other.op = "ensure" /\ other.error = "")
          => other.got # 0 /\ Configured(sessions[other.got])
    /\ (\A i \in 1..Len(sessions) : ~sessions[i].closed) =>
          /\ Len(sessions) <= 1
          /\ (other.got # 0 /\ sess # 0) => other.got = sess

\* ------------------------------------------------------------------ C37
\* C37: in a _request_jira call every session.request after the first is
\* made with the keyword arguments of the one before (method, url, params,
\* data) on the same session, and between the start of the call and its
\* end the arguments, the url, the two filtered dicts and the session the
\* call holds do not change.
C37_SameRequest ==
    [][/\ (attempts' = attempts + 1 /\ attempts >= 1) => sent' = sent
       /\ (pc # "idle" /\ pc' # "idle") =>
             UNCHANGED <<args, sess, url, filtered_params, filtered_data>>]_vars

\* a call with a query and a body that was sent three times
C37_Witness ==
    /\ pc = "done" /\ attempts = 3 /\ sleeps = 2
    /\ sent.params = <<<<<<"b", <<"False">>>>>>>>
    /\ sent.data # <<>>
    /\ sent.session = sess /\ sess = session

\* ------------------------------------------------------------------ C38
\* the last direct call of _calculate_retry_delay returned the number its
\* header parses to
HintProbe == probe.fn = "delay" /\ HintUsed(probe.header)

\* the delay the last direct call returned is above 1.3 * max_retry_delay
AboveCap == 10 * probe.delay > DEFAULT_JITTER_MAX * max_retry_delay

\* C38 as stated: a header that parses as the number v gives the delay v,
\* be it above max_retry_delay, zero or negative, and a delay above
\* 1.3 * max_retry_delay comes from a header.
C38_Original ==
    probe.fn = "delay" =>
        /\ HintProbe => probe.delay = ParseFloat(probe.header).ms
        /\ AboveCap => HintProbe

\* C38 amended: a header that parses as the number v gives the delay v, be
\* it above max_retry_delay, zero or negative, and for a max_retry_delay
\* that is not negative a delay above 1.3 * max_retry_delay comes from a
\* header.
C38_HintUnbounded ==
    probe.fn = "delay" =>
        /\ HintProbe => /\ probe.delay = ParseFloat(probe.header).ms
                        /\ probe.header = <<"2">> => probe.delay = 2000
                        /\ probe.header = <<"0">> => probe.delay = 0
                        /\ probe.header = <<"-", "1">> => probe.delay = 0 - 1000
        /\ (max_retry_delay >= 0 /\ AboveCap) => HintProbe

\* a hint of two seconds taken as it is under a max_retry_delay of 20 ms,
\* after a call that took a negative hint as it is
C38_Witness ==
    /\ HintProbe /\ probe.header = <<"2">> /\ probe.delay = 2000
    /\ max_retry_delay = 20 /\ AboveCap
    /\ probe.prev.header = <<"-", "1">> /\ probe.prev.delay = 0 - 1000

\* ------------------------------------------------------------------ C39
\* the call in hand made a session.request and ended with an error
FailedSend == pc = "done" /\ result.kind = "error" /\ attempts >= 1

\* the call before ended with an error
FailedBefore == probe.fn = "call" /\ probe.kind = "error"

\* C39: a _request_jira call that ends with an error after a
\* session.request (status, spent 429 budget, exception of the transport)
\* leaves the handle on the open session it used, the one found at its
\* start if there was one; the next call, unless a close() came between,
\* uses that session and makes none; a handle that is set becomes None
\* only by close().
C39_FailureKeepsSession ==
    /\ [](FailedSend => /\ session = sess /\ session # 0
                        /\ ~sessions[session].closed
                        /\ last_op.handle # 0 => session = last_op.handle)
    /\ [][/\ (FailedSend /\ pc' = "idle") => (session' = sess /\ sessions' = sessions)
          /\ (pc = "idle" /\ pc' # "idle" /\ FailedBefore /\ session # 0)
                => (sess' = session /\ session' = session /\ sessions' = sessions)
          /\ (session # 0 /\ session' = 0) => last_op'.name \in {"close", "exit"}]_vars

\* a second call going out on the session of the first, which used its
\* retries and ended with an error
C39_Witness ==
    /\ FailedBefore /\ probe.retries = MaxRetries
    /\ calls = 2 /\ pc = "request"
    /\ last_op.name = "send" /\ last_op.handle = 1
    /\ sess = 1 /\ session = 1 /\ Len(sessions) = 1

\* ------------------------------------------------------------------ C40
\* the entries of the dict d
Items(d) == {d[i] : i \in 1..Len(d)}

\* f is d without its entries whose value is None, and filtering f again
\* gives f
ShallowFilter(f, d) ==
    /\ Items(f) = {e \in Items(d) : e[2] # None}
    /\ FilterDict(f) = f

NestedNone == <<"[", "None", "]">>

\* C40: _filter_none_values leaves the dict of the caller as it is and
\* returns a dict with the entries whose value is not None, a value that
\* holds a None inside among them (it is sent as null), and filtering its
\* result again returns an equal dict.
C40_ShallowFilter ==
    /\ [](Prepared =>
            /\ args.params # <<>> =>
                  Len(filtered_params) = 1 /\ ShallowFilter(filtered_params[1], args.params[1])
            /\ args.data # <<>> =>
                  Len(filtered_data) = 1 /\ ShallowFilter(filtered_data[1], args.data[1])
            /\ (attempts >= 1 /\ args.data # <<>>
                  /\ \E e \in Items(args.data[1]) : e[2] = NestedNone)
                  => sent.data # <<>> /\ Contains(sent.data[1], <<"[", "null", "]">>))
    /\ [][(pc # "idle" /\ pc' # "idle") => args' = args]_vars

\* a body with a None and a list that holds a None: the entry with None
\* is left out, the list is sent, and the dict of the caller has both
C40_Witness ==
    /\ pc = "done" /\ attempts >= 1
    /\ args.data = << << <<"a", NestedNone>>, <<"b", None>> >> >>
    /\ filtered_data = << << <<"a", NestedNone>> >> >>
    /\ sent.data = << <<"{", "\"", "a", "\"", ":", "[", "null", "]", "}">> >>

====
